---- MODULE Spec2Model ----
(***************************************************************************)
(* Model of the planter backend's recommendation / chat service            *)
(* (services.RecommendationService) and of the stores it talks to.         *)
(*                                                                         *)
(* Every HTTP request runs in a goroutine of its own (net/http), so a      *)
(* service method is modelled as a request that advances one repository    *)
(* call, one external call or one access of the chatSessions map at a      *)
(* time; purely local computation is folded into the step that follows     *)
(* the data it needs.                                                      *)
(***************************************************************************)
EXTENDS Integers, Sequences, FiniteSets, TLC

(***************************************************************************)
(* Bounds of the model.                                                    *)
(***************************************************************************)
MaxSends == 2         \* SendChatMessage calls begun while requests may overlap
MaxSendsLong == 7     \* SendChatMessage calls begun when requests run one at a time
MaxRecCalls == 3      \* GetRecommendations / GenerateRecommendations calls begun
SessionIDs == {1}     \* the ids the database hands out
QuestionnaireIDs == {1, 2}   \* questionnaire 2 is never stored
Threads == {"t1", "t2"}
Users == {"u1", "u2"}

VARIABLES
    dbChatSessions,   \* table chat_sessions: session id -> [UserID, LastUsed]
    dbChatMessages,   \* table chat_messages: session id -> rows in created_at order
    chatSessions,     \* RecommendationService.chatSessions (in-memory map)
    req,              \* per goroutine: the request it is serving and its locals
    sends,            \* SendChatMessage calls begun so far (also numbers the texts)
    overlap           \* TRUE: requests may run concurrently; FALSE: one at a time

VARIABLES
    yandexGPTAPIKey,    \* RecommendationService.yandexGPTAPIKey ("" when not configured)
    dbQuestionnaires,   \* table plant_questionnaires: id -> questionnaire
    dbPlants,           \* table plants with care_instructions, ORDER BY name
    dbRecommendations,  \* table plant_recommendations, rows in insertion order
    rreq,               \* per goroutine: the recommendation request it is serving
    httpRequests,       \* HTTP requests sent to the completion endpoint so far
    recCalls,           \* GetRecommendations / GenerateRecommendations calls begun
    lastServed,         \* history: per questionnaire, what the last call served from the
                        \* store returned, while the table has not changed since
    getsServed          \* history: the questionnaires for which a GetRecommendations
                        \* call has returned without error

VARIABLES
    scorer,             \* a call of generateLocalRecommendations on its own: inputs, results
    parser,             \* a call of parseYandexGPTResponse on its own: inputs, loop state
    client              \* a call of callYandexGPTAPI on its own: response, result

VARIABLES
    job                 \* the WateringNotificationsJob: ticker, stop channel, goroutine

chatVars == <<dbChatSessions, dbChatMessages, chatSessions, req, sends, overlap>>
recVars == <<yandexGPTAPIKey, dbQuestionnaires, dbPlants, dbRecommendations, rreq,
             httpRequests, recCalls, lastServed, getsServed>>
pureVars == <<scorer, parser, client>>
jobVars == <<job>>
vars == <<dbChatSessions, dbChatMessages, chatSessions, req, sends, overlap,
          yandexGPTAPIKey, dbQuestionnaires, dbPlants, dbRecommendations, rreq,
          httpRequests, recCalls, lastServed, getsServed,
          scorer, parser, client, job>>

(***************************************************************************)
(* Messages.  A text is identified by the number of the call that produced *)
(* it: user text n is the text of the n-th SendChatMessage, assistant text *)
(* n the reply to it, 0 the fixed system directive.                        *)
(***************************************************************************)
NoSession == 0
NoUser == "none"
NoError == "nil"

systemMessage == [Role |-> "system", Text |-> 0]

maxMessages == 10

startIdx(dbMessages) ==
    IF Len(dbMessages) > maxMessages THEN Len(dbMessages) - maxMessages ELSE 0

\* the rows dbMessages[startIdx:] converted to Message{Role, Text}
DbTail(dbMessages) ==
    [i \in 1..(Len(dbMessages) - startIdx(dbMessages)) |->
        [Role |-> dbMessages[i + startIdx(dbMessages)].Role,
         Text |-> dbMessages[i + startIdx(dbMessages)].Content]]

\* the slice the request starts from: the map entry when there is one
ContextBase(sessionID) ==
    IF sessionID \in DOMAIN chatSessions THEN chatSessions[sessionID] ELSE <<systemMessage>>

\* the list handed to callYandexGPTAPI
BuildMessages(base, dbMessages, message) ==
    base \o DbTail(dbMessages) \o <<[Role |-> "user", Text |-> message]>>

\* a check that lets every caller through
OwnsSession_Anyone(session, userID) == session.UserID \in Users

\* if session.UserID != userID { return error }
OwnsSession(session, userID) == session.UserID = userID

Idle ==
    [op |-> "none", pc |-> "idle", sessionID |-> NoSession, userID |-> NoUser,
     message |-> 0, dbMessages |-> <<>>, sessionMessages |-> <<>>, messages |-> <<>>,
     response |-> 0, apiErr |-> FALSE, err |-> NoError, out |-> <<>>]

Busy == {t \in Threads : req[t].pc # "idle"}

CanBegin(t) ==
    /\ req[t].pc = "idle"
    /\ IF overlap THEN t = "t1" \/ req["t1"].pc # "idle" ELSE t = "t1"

Created == DOMAIN dbChatSessions

\* the method returns: its locals are dead, what it returned is kept until
\* the handler has answered
Returns(r, t, e, out) ==
    req' = [r EXCEPT ![t] = [Idle EXCEPT !.op = r[t].op, !.pc = "done",
                                        !.sessionID = r[t].sessionID,
                                        !.userID = r[t].userID,
                                        !.message = r[t].message,
                                        !.apiErr = r[t].apiErr,
                                        !.err = e, !.out = out]]

Fail(t, e) == Returns(req, t, e, << >>)

(***************************************************************************)
(* float64.  A score is a Go float64; here it is the exact value           *)
(* (hi * 2^28 + lo) * 2^-56, with its sign.  Every weight of the scorer    *)
(* and every sum of them is a multiple of 2^-56 below 2; FloatAdd rounds   *)
(* the exact sum to 53 significant bits, ties to even, as the hardware     *)
(* does.                                                                   *)
(***************************************************************************)
Limb == 268435456     \* 2^28
HalfLimb == 16384     \* 2^14

FloatZero == [neg |-> FALSE, hi |-> 0, lo |-> 0]

\* the float64 nearest to 0.4, 0.2, 0.3, 0.15, 0.1: the literals of the scorer
Weight04 == [neg |-> FALSE, hi |-> 107374182, lo |-> 107374184]
Weight02 == [neg |-> FALSE, hi |-> 53687091, lo |-> 53687092]
Weight03 == [neg |-> FALSE, hi |-> 80530636, lo |-> 214748364]
Weight015 == [neg |-> FALSE, hi |-> 40265318, lo |-> 107374182]
Weight01 == [neg |-> FALSE, hi |-> 26843545, lo |-> 161061274]

\* the bits dropped from a sum that needs more than 53 of them
RoundUnit(hi) ==
    IF hi < 33554432 THEN 1
    ELSE IF hi < 67108864 THEN 2
    ELSE IF hi < 134217728 THEN 4
    ELSE IF hi < 268435456 THEN 8
    ELSE 16

\* a + b for non-negative a and b, rounded to nearest, ties to even
FloatAdd(a, b) ==
    LET lo0 == a.lo + b.lo
        hi1 == a.hi + b.hi + (lo0 \div Limb)
        lo1 == lo0 % Limb
        q == RoundUnit(hi1)
        rem == lo1 % q
        base == lo1 - rem
        up == \/ rem * 2 > q
              \/ rem * 2 = q /\ (base \div q) % 2 = 1
        lo2 == IF up THEN base + q ELSE base
    IN  [neg |-> FALSE, hi |-> hi1 + (lo2 \div Limb), lo |-> lo2 % Limb]

\* a > b
FloatGt(a, b) ==
    LET magGt(x, y) == x.hi > y.hi \/ (x.hi = y.hi /\ x.lo > y.lo)
        zero(x) == x.hi = 0 /\ x.lo = 0
    IN  IF zero(a) /\ zero(b) THEN FALSE
        ELSE IF a.neg /\ ~b.neg THEN FALSE
        ELSE IF ~a.neg /\ b.neg THEN TRUE
        ELSE IF a.neg THEN magGt(b, a)
        ELSE magGt(a, b)

\* the value as the column score DECIMAL(3, 2) stores it, in hundredths:
\* round(|x| * 100), half away from zero, with the sign
Hundredths(x) ==
    LET h1 == x.hi \div HalfLimb
        h0 == x.hi % HalfLimb
        l1 == x.lo \div HalfLimb
        l0 == x.lo % HalfLimb
        d1 == 100 * l1 + ((100 * l0) \div HalfLimb)
        d2 == 100 * h0 + (d1 \div HalfLimb)
        d3 == 100 * h1 + 8192 + (d2 \div HalfLimb)
        c == d3 \div HalfLimb
    IN  IF x.neg THEN 0 - c ELSE c

\* strconv.ParseFloat on a decimal with at most two fraction digits: the
\* float64 nearest to n / 100, for the multiples of 0.05 up to 2
NearestFloat ==
    (0 :> <<0, 0>>) @@
    (5 :> <<13421772, 214748365>>) @@
    (10 :> <<26843545, 161061274>>) @@
    (15 :> <<40265318, 107374182>>) @@
    (20 :> <<53687091, 53687092>>) @@
    (25 :> <<67108864, 0>>) @@
    (30 :> <<80530636, 214748364>>) @@
    (35 :> <<93952409, 161061272>>) @@
    (40 :> <<107374182, 107374184>>) @@
    (45 :> <<120795955, 53687092>>) @@
    (50 :> <<134217728, 0>>) @@
    (55 :> <<147639500, 214748368>>) @@
    (60 :> <<161061273, 161061272>>) @@
    (65 :> <<174483046, 107374184>>) @@
    (70 :> <<187904819, 53687088>>) @@
    (75 :> <<201326592, 0>>) @@
    (80 :> <<214748364, 214748368>>) @@
    (85 :> <<228170137, 161061272>>) @@
    (90 :> <<241591910, 107374184>>) @@
    (95 :> <<255013683, 53687088>>) @@
    (100 :> <<268435456, 0>>) @@
    (105 :> <<281857228, 214748368>>) @@
    (110 :> <<295279001, 161061280>>) @@
    (115 :> <<308700774, 107374176>>) @@
    (120 :> <<322122547, 53687088>>) @@
    (125 :> <<335544320, 0>>) @@
    (130 :> <<348966092, 214748368>>) @@
    (135 :> <<362387865, 161061280>>) @@
    (140 :> <<375809638, 107374176>>) @@
    (145 :> <<389231411, 53687088>>) @@
    (150 :> <<402653184, 0>>) @@
    (155 :> <<416074956, 214748368>>) @@
    (160 :> <<429496729, 161061280>>) @@
    (165 :> <<442918502, 107374176>>) @@
    (170 :> <<456340275, 53687088>>) @@
    (175 :> <<469762048, 0>>) @@
    (180 :> <<483183820, 214748368>>) @@
    (185 :> <<496605593, 161061280>>) @@
    (190 :> <<510027366, 107374176>>) @@
    (195 :> <<523449139, 53687088>>) @@
    (200 :> <<536870912, 0>>)

(***************************************************************************)
(* Strings are sequences of one-character strings.                         *)
(***************************************************************************)
Uppers == <<"A", "B", "C", "D", "E", "F", "G", "H", "I", "J", "K", "L", "M",
            "N", "O", "P", "Q", "R", "S", "T", "U", "V", "W", "X", "Y", "Z">>
Lowers == <<"a", "b", "c", "d", "e", "f", "g", "h", "i", "j", "k", "l", "m",
            "n", "o", "p", "q", "r", "s", "t", "u", "v", "w", "x", "y", "z">>

ToLowerChar(c) ==
    IF \E i \in 1..Len(Uppers) : Uppers[i] = c
      THEN Lowers[CHOOSE i \in 1..Len(Uppers) : Uppers[i] = c]
      ELSE c

\* strings.ToLower
ToLower(s) == [i \in 1..Len(s) |-> ToLowerChar(s[i])]

\* strings.Contains
Contains(s, substr) ==
    \E i \in 0..(Len(s) - Len(substr)) : SubSeq(s, i + 1, i + Len(substr)) = substr

\* abs that returns its argument
abs_Identity(x) == x

\* abs
abs(x) == IF x < 0 THEN 0 - x ELSE x

(***************************************************************************)
(* generateLocalRecommendations                                            *)
(***************************************************************************)
SunlightLevelLow == "LOW"
SunlightLevelMedium == "MEDIUM"
SunlightLevelHigh == "HIGH"

\* the rules that fire for one plant, in the order the code tests them; each
\* is the weight it adds and the clause it appends to the reasoning
FiredRules(questionnaire, plant) ==
    LET sun == plant.Sunlight
        pref == questionnaire.SunlightPreference
        careLevelDiff == abs(plant.FertilizerFrequency - questionnaire.CareLevel)
        sunlight ==
            IF sun = pref
              THEN <<[w |-> Weight04, clause |-> <<"sunlight matches", sun>>]>>
            ELSE IF \/ (sun = SunlightLevelMedium
                          /\ (pref = SunlightLevelLow \/ pref = SunlightLevelHigh))
                    \/ ((sun = SunlightLevelLow \/ sun = SunlightLevelHigh)
                          /\ pref = SunlightLevelMedium)
              THEN <<[w |-> Weight02, clause |-> <<"sunlight partly matches", sun>>]>>
            ELSE << >>
        care ==
            IF careLevelDiff = 0
              THEN <<[w |-> Weight03, clause |-> <<"care level matches">>]>>
            ELSE IF careLevelDiff = 1
              THEN <<[w |-> Weight015, clause |-> <<"care level is close">>]>>
            ELSE << >>
        pet ==
            IF questionnaire.PetFriendly
              THEN <<[w |-> Weight01, clause |-> <<"pet safe">>]>>
            ELSE << >>
        location ==
            IF /\ questionnaire.HasPreferredLocation
               /\ plant.AdditionalNotes # << >>
               /\ Contains(ToLower(plant.AdditionalNotes), ToLower(questionnaire.PreferredLocation))
              THEN <<[w |-> Weight02, clause |-> <<"fits location">> \o questionnaire.PreferredLocation]>>
            ELSE << >>
    IN  sunlight \o care \o pet \o location

RECURSIVE SumWeights(_, _)
\* score := 0.0, then score += w for every rule that fired, in order
SumWeights(rules, score) ==
    IF rules = << >> THEN score
    ELSE SumWeights(Tail(rules), FloatAdd(score, Head(rules).w))

LocalScore(questionnaire, plant) == SumWeights(FiredRules(questionnaire, plant), FloatZero)

RECURSIVE JoinClauses(_)
\* reasoning += ... for every rule that fired, in order
JoinClauses(rules) ==
    IF rules = << >> THEN << >> ELSE Head(rules).clause \o JoinClauses(Tail(rules))

\* strings.TrimSpace over the concatenated clauses
LocalReasoning(questionnaire, plant) == JoinClauses(FiredRules(questionnaire, plant))

\* if score > 0.3
AboveThreshold(score) == FloatGt(score, Weight03)

RECURSIVE Candidates(_, _, _)
\* the loop over allPlants: one recommendation per plant above the threshold
Candidates(questionnaire, allPlants, i) ==
    IF i > Len(allPlants) THEN << >>
    ELSE LET plant == allPlants[i]
             score == LocalScore(questionnaire, plant)
             rest == Candidates(questionnaire, allPlants, i + 1)
         IN  IF AboveThreshold(score)
               THEN <<[QuestionnaireID |-> questionnaire.ID, PlantID |-> plant.ID,
                       Score |-> score,
                       Reasoning |-> LocalReasoning(questionnaire, plant)]>> \o rest
               ELSE rest

RECURSIVE InsertByScore(_, _)
\* one pass of the insertion sort sort.Slice runs on a slice of at most 12
\* elements: x moves left past every element that less(x, e) = x.Score >
\* e.Score puts it before
InsertByScore(sorted, x) ==
    IF sorted = << >> THEN <<x>>
    ELSE LET last == sorted[Len(sorted)]
         IN  IF FloatGt(x.Score, last.Score)
               THEN Append(InsertByScore(SubSeq(sorted, 1, Len(sorted) - 1), x), last)
               ELSE Append(sorted, x)

\* the slice left in the order of the catalog
SortByScore_Unsorted(recommendations, n) == recommendations

RECURSIVE SortByScore(_, _)
SortByScore(recommendations, n) ==
    IF n = 0 THEN << >>
    ELSE InsertByScore(SortByScore(recommendations, n - 1), recommendations[n])

TopN == 5

\* generateLocalRecommendations whose order depends on what ran before
generateLocalRecommendations_ByHistory(questionnaire, allPlants) ==
    LET found == Candidates(questionnaire, allPlants, 1)
        sorted == SortByScore(found, Len(found))
        cut == IF Len(sorted) > TopN THEN SubSeq(sorted, 1, TopN) ELSE sorted
    IN  IF scorer.outs = << >> THEN cut
        ELSE [i \in 1..Len(cut) |-> cut[Len(cut) + 1 - i]]

generateLocalRecommendations(questionnaire, allPlants) ==
    LET found == Candidates(questionnaire, allPlants, 1)
        sorted == SortByScore(found, Len(found))
    IN  IF Len(sorted) > TopN THEN SubSeq(sorted, 1, TopN) ELSE sorted

(***************************************************************************)
(* fmt.Sscanf(lineStr, "%d. %s - %f", &plantNumber, &plantName, &score)    *)
(***************************************************************************)
SpaceChars == {" ", "\t", "\r"}
DigitChars == {"0", "1", "2", "3", "4", "5", "6", "7", "8", "9"}
SignChars == {"+", "-"}

DigitValue(c) ==
    CASE c = "0" -> 0 [] c = "1" -> 1 [] c = "2" -> 2 [] c = "3" -> 3 [] c = "4" -> 4
      [] c = "5" -> 5 [] c = "6" -> 6 [] c = "7" -> 7 [] c = "8" -> 8 [] c = "9" -> 9

RECURSIVE RunEnd(_, _, _)
\* the first position at or after i whose character is not in chars
RunEnd(line, i, chars) ==
    IF i <= Len(line) /\ line[i] \in chars THEN RunEnd(line, i + 1, chars) ELSE i

\* ss.SkipSpace
SkipSpace(line, i) == RunEnd(line, i, SpaceChars)

RECURSIVE DecimalValue(_, _)
DecimalValue(digits, acc) ==
    IF digits = << >> THEN acc
    ELSE DecimalValue(Tail(digits), acc * 10 + DigitValue(Head(digits)))

\* the scan so far: whether it still succeeds, the next position of the
\* input, and the operands stored
ScanStart ==
    [ok |-> TRUE, next |-> 1, plantNumber |-> 0, plantName |-> << >>, score |-> FloatZero]

ScanFailed ==
    [ok |-> FALSE, next |-> 0, plantNumber |-> 0, plantName |-> << >>, score |-> FloatZero]

\* the digits of the integer that starts at i (after its sign)
IntToken(line, i) == SubSeq(line, i, RunEnd(line, i, DigitChars \cup {"_"}) - 1)

\* after the sign, if there is one
PastSign(line, i) == IF i <= Len(line) /\ line[i] \in SignChars THEN i + 1 ELSE i

\* the integer whose sign or first digit is at i; '_' is scanned with the
\* digits and then refused by strconv.ParseInt
IntAt(sc, line, i, tok) ==
    IF i > Len(line) \/ tok = << >> \/ (\E n \in 1..Len(tok) : tok[n] = "_") THEN ScanFailed
    ELSE [sc EXCEPT !.next = PastSign(line, i) + Len(tok),
                    !.plantNumber = IF line[i] = "-" THEN 0 - DecimalValue(tok, 0)
                                    ELSE DecimalValue(tok, 0)]

IntFrom(sc, line, i) == IntAt(sc, line, i, IntToken(line, PastSign(line, i)))

\* %d: spaces, an optional sign, at least one digit
ScanInt(sc, line) ==
    IF ~sc.ok THEN ScanFailed ELSE IntFrom(sc, line, SkipSpace(line, sc.next))

\* a literal character of the format
ScanLiteral(sc, line, c) ==
    IF sc.ok /\ sc.next <= Len(line) /\ line[sc.next] = c
      THEN [sc EXCEPT !.next = @ + 1]
      ELSE ScanFailed

\* a space of the format: one or more spaces of the input, or its end
ScanFormatSpace(sc, line) ==
    IF ~sc.ok THEN ScanFailed
    ELSE IF sc.next > Len(line) THEN sc
    ELSE IF line[sc.next] \in SpaceChars THEN [sc EXCEPT !.next = SkipSpace(line, @)]
    ELSE ScanFailed

\* the characters of the line that are not spaces
NonSpaceChars(line) == {line[n] : n \in 1..Len(line)} \ SpaceChars

StringAt(sc, line, i, k) ==
    IF i > Len(line) THEN ScanFailed
    ELSE [sc EXCEPT !.next = k, !.plantName = SubSeq(line, i, k - 1)]

StringFrom(sc, line, i) == StringAt(sc, line, i, RunEnd(line, i, NonSpaceChars(line)))

\* %s: spaces, then the run of characters up to the next space
ScanString(sc, line) ==
    IF ~sc.ok THEN ScanFailed ELSE StringFrom(sc, line, SkipSpace(line, sc.next))

\* the digits after the period at k, if there is one
FractionToken(line, k) ==
    IF k <= Len(line) /\ line[k] = "."
      THEN SubSeq(line, k + 1, RunEnd(line, k + 1, DigitChars) - 1)
      ELSE << >>

\* the length of the token: the digits, and the period with its digits
FloatTokenLen(line, k, whole, fraction) ==
    Len(whole) + Len(fraction) + (IF k <= Len(line) /\ line[k] = "." THEN 1 ELSE 0)

\* the value of the token in hundredths (at most two digits after the period)
TokenHundredths(whole, fraction) ==
    DecimalValue(whole, 0) * 100
      + (IF Len(fraction) = 1 THEN 10 * DigitValue(fraction[1]) ELSE DecimalValue(fraction, 0))

FloatValue(negative, hundredths) ==
    [neg |-> negative /\ hundredths # 0,
     hi |-> NearestFloat[hundredths][1], lo |-> NearestFloat[hundredths][2]]

FloatOf(sc, line, i, j, whole, fraction) ==
    IF i > Len(line) \/ (whole = << >> /\ fraction = << >>) THEN ScanFailed
    ELSE [sc EXCEPT !.next = j + FloatTokenLen(line, j + Len(whole), whole, fraction),
                    !.score = FloatValue(line[i] = "-", TokenHundredths(whole, fraction))]

FloatAt(sc, line, i, j, whole) ==
    FloatOf(sc, line, i, j, whole, FractionToken(line, j + Len(whole)))

FloatFrom(sc, line, i) ==
    FloatAt(sc, line, i, PastSign(line, i),
            SubSeq(line, PastSign(line, i), RunEnd(line, PastSign(line, i), DigitChars) - 1))

\* %f: spaces, then floatToken (sign, digits, period, digits) handed to
\* strconv.ParseFloat
ScanFloat(sc, line) ==
    IF ~sc.ok THEN ScanFailed ELSE FloatFrom(sc, line, SkipSpace(line, sc.next))

\* the verbs and literals of "%d. %s - %f", left to right; input left over
\* after the last verb is not an error
ScanFormat(line) ==
    ScanFloat(
      ScanFormatSpace(
        ScanLiteral(
          ScanFormatSpace(
            ScanString(
              ScanFormatSpace(
                ScanLiteral(ScanInt(ScanStart, line), line, "."),
                line),
              line),
            line),
          line, "-"),
        line),
      line)

ScanResult(sc) ==
    [err |-> ~sc.ok, plantNumber |-> sc.plantNumber, plantName |-> sc.plantName,
     score |-> sc.score]

Sscanf(line) == ScanResult(ScanFormat(line))

(***************************************************************************)
(* parseYandexGPTResponse                                                  *)
(***************************************************************************)
RECURSIVE Split(_, _)
\* bytes.Split(response, "\n"); cur is the line being collected
Split(response, cur) ==
    IF response = << >> THEN <<cur>>
    ELSE IF Head(response) = "\n" THEN <<cur>> \o Split(Tail(response), << >>)
    ELSE Split(Tail(response), Append(cur, Head(response)))

ParserStart ==
    [recommendations |-> << >>, currentPlantNumber |-> 0, currentScore |-> FloatZero,
     currentReasoning |-> << >>, parsingReasoning |-> FALSE]

\* Flush taking the plant one place too far in the list
Flush_OffByOne(st, questionnaireID, allPlants) ==
    IF st.parsingReasoning /\ st.currentPlantNumber > 0 /\ st.currentPlantNumber <= Len(allPlants)
      THEN Append(st.recommendations,
                  [QuestionnaireID |-> questionnaireID,
                   PlantID |-> IF st.currentPlantNumber < Len(allPlants)
                                 THEN allPlants[st.currentPlantNumber + 1].ID ELSE "nil",
                   Score |-> st.currentScore,
                   Reasoning |-> st.currentReasoning])
      ELSE st.recommendations

\* "save the previous plant" / "save the last plant"
Flush(st, questionnaireID, allPlants) ==
    IF st.parsingReasoning /\ st.currentPlantNumber > 0 /\ st.currentPlantNumber <= Len(allPlants)
      THEN Append(st.recommendations,
                  [QuestionnaireID |-> questionnaireID,
                   PlantID |-> allPlants[st.currentPlantNumber].ID,
                   Score |-> st.currentScore,
                   Reasoning |-> st.currentReasoning])
      ELSE st.recommendations

\* StartsPlant without the test of the number against the list
StartsPlant_AnyNumber(scan, allPlants) == ~scan.err

\* a line that scanned as "<number>. <name> - <score>", number in range
StartsPlant(scan, allPlants) ==
    ~scan.err /\ scan.plantNumber > 0 /\ scan.plantNumber <= Len(allPlants)

ParseScanned(st, lineStr, scan, questionnaireID, allPlants) ==
    IF StartsPlant(scan, allPlants)
      THEN [recommendations |-> Flush(st, questionnaireID, allPlants),
            currentPlantNumber |-> scan.plantNumber,
            currentScore |-> scan.score,
            currentReasoning |-> << >>,
            parsingReasoning |-> TRUE]
    ELSE IF st.parsingReasoning
      THEN [st EXCEPT !.currentReasoning =
               (IF Len(@) > 0 THEN Append(@, "\n") ELSE @) \o lineStr]
    ELSE st

\* the body of the loop over the lines
ParseLine(st, lineStr, questionnaireID, allPlants) ==
    IF Len(lineStr) = 0 THEN st
    ELSE ParseScanned(st, lineStr, Sscanf(lineStr), questionnaireID, allPlants)

RECURSIVE ParseLines(_, _, _, _)
ParseLines(st, lines, questionnaireID, allPlants) ==
    IF lines = << >> THEN st
    ELSE ParseLines(ParseLine(st, Head(lines), questionnaireID, allPlants),
                    Tail(lines), questionnaireID, allPlants)

\* ParseResult without the test for an empty list
ParseResult_NeverFails(recommendations) ==
    [err |-> NoError, recommendations |-> recommendations]

ParseResult(recommendations) ==
    IF Len(recommendations) = 0
      THEN [err |-> "failed to parse any recommendations from response",
            recommendations |-> << >>]
      ELSE [err |-> NoError, recommendations |-> recommendations]

parseYandexGPTResponse(response, questionnaireID, allPlants) ==
    ParseResult(Flush(ParseLines(ParserStart, Split(response, << >>), questionnaireID, allPlants),
                      questionnaireID, allPlants))

(***************************************************************************)
(* The stores behind GetRecommendations / GenerateRecommendations.  The    *)
(* database is reachable; a statement fails only on a constraint.          *)
(***************************************************************************)
NoQuestionnaire ==
    [ID |-> 0, SunlightPreference |-> "", CareLevel |-> 0, PetFriendly |-> FALSE,
     HasPreferredLocation |-> FALSE, PreferredLocation |-> << >>]

\* the rows of plant_recommendations of one questionnaire, in insertion order
StoredFor(questionnaireID) ==
    SelectSeq(dbRecommendations, LAMBDA row : row.QuestionnaireID = questionnaireID)

RECURSIVE InsertRow(_, _)
InsertRow(sorted, row) ==
    IF sorted = << >> THEN <<row>>
    ELSE LET last == sorted[Len(sorted)]
         IN  IF row.Score > last.Score
               THEN Append(InsertRow(SubSeq(sorted, 1, Len(sorted) - 1), row), last)
               ELSE Append(sorted, row)

RECURSIVE OrderByScoreDesc(_, _)
\* ORDER BY score DESC; rows of equal score stay in the order of the table
OrderByScoreDesc(rows, n) ==
    IF n = 0 THEN << >> ELSE InsertRow(OrderByScoreDesc(rows, n - 1), rows[n])

\* RecommendationRepository.GetRecommendations
GetStoredRecommendations(questionnaireID) ==
    OrderByScoreDesc(StoredFor(questionnaireID), Len(StoredFor(questionnaireID)))

\* RecommendationRepository.GetRecommendedPlants: the plants joined to the
\* rows, ORDER BY pr.score DESC
GetRecommendedPlants(questionnaireID) ==
    LET rows == OrderByScoreDesc(StoredFor(questionnaireID), Len(StoredFor(questionnaireID)))
        inCatalog == SelectSeq(rows, LAMBDA row : \E i \in 1..Len(dbPlants) : dbPlants[i].ID = row.PlantID)
    IN  [i \in 1..Len(inCatalog) |-> inCatalog[i].PlantID]

\* the row INSERT INTO plant_recommendations writes: score is DECIMAL(3, 2)
RowOf(recommendation) ==
    [QuestionnaireID |-> recommendation.QuestionnaireID,
     PlantID |-> recommendation.PlantID,
     Score |-> Hundredths(recommendation.Score),
     Reasoning |-> recommendation.Reasoning]

\* UNIQUE(questionnaire_id, plant_id)
ViolatesUnique(table, row) ==
    \E i \in 1..Len(table) :
        table[i].QuestionnaireID = row.QuestionnaireID /\ table[i].PlantID = row.PlantID

\* RecommendationRepository.SaveRecommendation: a plain INSERT
SaveRecommendation(table, recommendation) ==
    IF ViolatesUnique(table, RowOf(recommendation))
      THEN [err |-> "failed to save recommendation", table |-> table]
      ELSE [err |-> NoError, table |-> Append(table, RowOf(recommendation))]

(***************************************************************************)
(* callYandexGPTAPI: one HTTP request; resp is what the network and the    *)
(* remote service answer.                                                  *)
(***************************************************************************)
StatusOK == 200

callYandexGPTAPI(resp) ==
    IF resp.transportErr THEN [err |-> "failed to send request", text |-> << >>]
    ELSE IF resp.StatusCode # StatusOK THEN [err |-> "API returned status code", text |-> << >>]
    ELSE IF ~resp.decodes THEN [err |-> "failed to decode response", text |-> << >>]
    ELSE IF Len(resp.Alternatives) = 0 THEN [err |-> "no alternatives in response", text |-> << >>]
    ELSE [err |-> NoError, text |-> resp.Alternatives[1]]

\* generateRecommendationsWithYandexGPT, after the reply is in
generateRecommendationsWithYandexGPT(resp, questionnaire, allPlants) ==
    LET response == callYandexGPTAPI(resp)
        parsed == parseYandexGPTResponse(response.text, questionnaire.ID, allPlants)
    IN  IF response.err # NoError
          THEN [err |-> "failed to call Yandex GPT API", recommendations |-> << >>]
        ELSE IF parsed.err # NoError
          THEN [err |-> "failed to parse Yandex GPT response", recommendations |-> << >>]
        ELSE [err |-> NoError, recommendations |-> parsed.recommendations]

(***************************************************************************)
(* GetRecommendations and GenerateRecommendations, one repository call or  *)
(* one external call per step.                                             *)
(***************************************************************************)
RecIdle ==
    [op |-> "none", pc |-> "idle", questionnaireID |-> 0, fromStore |-> FALSE,
     questionnaire |-> NoQuestionnaire, allPlants |-> << >>, recommendations |-> << >>,
     saved |-> 0, source |-> "none", err |-> NoError, out |-> << >>, later |-> FALSE]

RecBusy == {t \in Threads : rreq[t].pc # "idle"}

RecCanBegin(t) ==
    /\ rreq[t].pc = "idle"
    /\ t = "t1" \/ rreq["t1"].pc # "idle"

\* the method returns: its locals are dead, what it returned is kept until
\* the handler has answered
RecReturns(t, e, out) ==
    rreq' = [rreq EXCEPT ![t] = [RecIdle EXCEPT !.op = rreq[t].op, !.pc = "done",
                                               !.questionnaireID = rreq[t].questionnaireID,
                                               !.fromStore = rreq[t].fromStore,
                                               !.source = rreq[t].source,
                                               !.err = e, !.out = out]]

(***************************************************************************)
(* NewRecommendationService after a process restart: the map is empty and  *)
(* the requests that were being served are gone; the database is kept.     *)
(***************************************************************************)
NewRecommendationService ==
    /\ chatSessions # << >> \/ Busy # {} \/ RecBusy # {}
    /\ chatSessions' = << >>
    /\ req' = [t \in Threads |-> Idle]
    /\ rreq' = [t \in Threads |-> RecIdle]
    /\ UNCHANGED <<dbChatSessions, dbChatMessages, sends, overlap, yandexGPTAPIKey,
                   dbQuestionnaires, dbPlants, dbRecommendations, httpRequests, recCalls,
                   lastServed, getsServed, pureVars, jobVars>>

(***************************************************************************)
(* CreateChatSession                                                       *)
(***************************************************************************)
CreateBegin(t, u) ==
    /\ CanBegin(t)
    /\ Cardinality(Created) + Cardinality({x \in Threads : req[x].pc = "createRow"}) < Cardinality(SessionIDs)
    /\ req' = [req EXCEPT ![t] = [Idle EXCEPT !.op = "create", !.pc = "createRow", !.userID = u]]
    /\ UNCHANGED <<dbChatSessions, dbChatMessages, chatSessions, sends, overlap, recVars, pureVars, jobVars>>

\* recommendationRepo.CreateChatSession: INSERT ... RETURNING id
CreateRow(t) ==
    /\ req[t].pc = "createRow"
    /\ LET id == Cardinality(Created) + 1 IN
        /\ dbChatSessions' = (id :> [UserID |-> req[t].userID, LastUsed |-> 0]) @@ dbChatSessions
        /\ req' = [req EXCEPT ![t].pc = "createMapWrite", ![t].sessionID = id]
    /\ UNCHANGED <<dbChatMessages, chatSessions, sends, overlap, recVars, pureVars, jobVars>>

\* s.chatSessions[session.ID] = []Message{systemMessage}
CreateMapWrite(t) ==
    /\ req[t].pc = "createMapWrite"
    /\ chatSessions' = (req[t].sessionID :> <<systemMessage>>) @@ chatSessions
    /\ Returns(req, t, NoError, << >>)
    /\ UNCHANGED <<dbChatSessions, dbChatMessages, sends, overlap, recVars, pureVars, jobVars>>

(***************************************************************************)
(* SendChatMessage                                                         *)
(***************************************************************************)
SendBegin(t, s, u) ==
    /\ CanBegin(t)
    /\ sends < (IF overlap THEN MaxSends ELSE MaxSendsLong)
    /\ sends' = sends + 1
    /\ req' = [req EXCEPT ![t] = [Idle EXCEPT !.op = "send", !.pc = "getSession",
                                    !.sessionID = s, !.userID = u, !.message = sends + 1]]
    /\ UNCHANGED <<dbChatSessions, dbChatMessages, chatSessions, overlap, recVars, pureVars, jobVars>>

\* recommendationRepo.GetChatSession and the ownership check
SendGetSession(t) ==
    /\ req[t].op = "send" /\ req[t].pc = "getSession"
    /\ IF req[t].sessionID \notin Created
         THEN Fail(t, "failed to get chat session")
         ELSE IF ~OwnsSession(dbChatSessions[req[t].sessionID], req[t].userID)
                THEN Fail(t, "user does not own this chat session")
                ELSE req' = [req EXCEPT ![t].pc = "saveUser"]
    /\ UNCHANGED <<dbChatSessions, dbChatMessages, chatSessions, sends, overlap, recVars, pureVars, jobVars>>

\* recommendationRepo.SaveChatMessage(userMessage)
SendSaveUser(t, dbOk) ==
    /\ req[t].pc = "saveUser"
    /\ IF dbOk
         THEN /\ dbChatMessages' = [dbChatMessages EXCEPT ![req[t].sessionID] =
                    Append(@, [UserID |-> req[t].userID, Role |-> "user", Content |-> req[t].message])]
              /\ req' = [req EXCEPT ![t].pc = "getMessages"]
         ELSE /\ Fail(t, "failed to save user message")
              /\ UNCHANGED dbChatMessages
    /\ UNCHANGED <<dbChatSessions, chatSessions, sends, overlap, recVars, pureVars, jobVars>>

\* recommendationRepo.GetChatMessages
SendGetMessages(t, dbOk) ==
    /\ req[t].op = "send" /\ req[t].pc = "getMessages"
    /\ IF dbOk
         THEN req' = [req EXCEPT ![t].pc = "mapRead", ![t].dbMessages = dbChatMessages[req[t].sessionID]]
         ELSE Fail(t, "failed to get chat messages")
    /\ UNCHANGED <<dbChatSessions, dbChatMessages, chatSessions, sends, overlap, recVars, pureVars, jobVars>>

\* the read of s.chatSessions[sessionID] and the appends that build messages
SendMapRead(t) ==
    /\ req[t].pc = "mapRead"
    /\ req' = [req EXCEPT ![t].pc = "callAPI",
                          ![t].sessionMessages = ContextBase(req[t].sessionID),
                          ![t].messages = BuildMessages(ContextBase(req[t].sessionID),
                                                        req[t].dbMessages, req[t].message)]
    /\ UNCHANGED <<dbChatSessions, dbChatMessages, chatSessions, sends, overlap, recVars, pureVars, jobVars>>

\* a SendChatMessage that answers with a locally made reply when the call fails
SendCallAPI_LocalFallback(t, apiOk) ==
    /\ req[t].pc = "callAPI"
    /\ req' = [req EXCEPT ![t].pc = "saveAssistant", ![t].response = req[t].message,
                          ![t].apiErr = ~apiOk]
    /\ UNCHANGED <<dbChatSessions, dbChatMessages, chatSessions, sends, overlap, recVars, pureVars, jobVars>>

\* callYandexGPTAPI(ctx, "", messages): an error, or the reply to this message
SendCallAPI(t, apiOk) ==
    /\ req[t].pc = "callAPI"
    /\ IF apiOk
         THEN req' = [req EXCEPT ![t].pc = "saveAssistant", ![t].response = req[t].message]
         ELSE Returns([req EXCEPT ![t].apiErr = TRUE], t, "failed to call Yandex GPT API", << >>)
    /\ UNCHANGED <<dbChatSessions, dbChatMessages, chatSessions, sends, overlap, recVars, pureVars, jobVars>>

\* recommendationRepo.SaveChatMessage(assistantMessage)
SendSaveAssistant(t, dbOk) ==
    /\ req[t].pc = "saveAssistant"
    /\ IF dbOk
         THEN /\ dbChatMessages' = [dbChatMessages EXCEPT ![req[t].sessionID] =
                    Append(@, [UserID |-> req[t].userID, Role |-> "assistant", Content |-> req[t].response])]
              /\ req' = [req EXCEPT ![t].pc = "mapWrite"]
         ELSE /\ Fail(t, "failed to save assistant message")
              /\ UNCHANGED dbChatMessages
    /\ UNCHANGED <<dbChatSessions, chatSessions, sends, overlap, recVars, pureVars, jobVars>>

\* messages = append(messages, assistant); s.chatSessions[sessionID] = messages
SendMapWrite(t) ==
    /\ req[t].pc = "mapWrite"
    /\ LET updated == Append(req[t].messages, [Role |-> "assistant", Text |-> req[t].response]) IN
        /\ chatSessions' = (req[t].sessionID :> updated) @@ chatSessions
        /\ req' = [req EXCEPT ![t].pc = "updateLastUsed", ![t].messages = updated]
    /\ UNCHANGED <<dbChatSessions, dbChatMessages, sends, overlap, recVars, pureVars, jobVars>>

\* recommendationRepo.UpdateChatSessionLastUsed: last_used = NOW()
SendUpdateLastUsed(t, dbOk) ==
    /\ req[t].pc = "updateLastUsed"
    /\ IF dbOk
         THEN /\ dbChatSessions' = [dbChatSessions EXCEPT ![req[t].sessionID].LastUsed = @ + 1]
              /\ Returns(req, t, NoError, <<[Role |-> "assistant", Content |-> req[t].response]>>)
         ELSE /\ Fail(t, "failed to update chat session last used")
              /\ UNCHANGED dbChatSessions
    /\ UNCHANGED <<dbChatMessages, chatSessions, sends, overlap, recVars, pureVars, jobVars>>

(***************************************************************************)
(* GetChatMessages                                                         *)
(***************************************************************************)
ReadBegin(t, s, u) ==
    /\ CanBegin(t)
    /\ req' = [req EXCEPT ![t] = [Idle EXCEPT !.op = "read", !.pc = "getSession",
                                    !.sessionID = s, !.userID = u]]
    /\ UNCHANGED <<dbChatSessions, dbChatMessages, chatSessions, sends, overlap, recVars, pureVars, jobVars>>

ReadGetSession(t) ==
    /\ req[t].op = "read" /\ req[t].pc = "getSession"
    /\ IF req[t].sessionID \notin Created
         THEN Fail(t, "failed to get chat session")
         ELSE IF ~OwnsSession(dbChatSessions[req[t].sessionID], req[t].userID)
                THEN Fail(t, "user does not own this chat session")
                ELSE req' = [req EXCEPT ![t].pc = "getMessages"]
    /\ UNCHANGED <<dbChatSessions, dbChatMessages, chatSessions, sends, overlap, recVars, pureVars, jobVars>>

ReadGetMessages(t, dbOk) ==
    /\ req[t].op = "read" /\ req[t].pc = "getMessages"
    /\ IF dbOk
         THEN Returns(req, t, NoError, dbChatMessages[req[t].sessionID])
         ELSE Fail(t, "failed to get chat messages")
    /\ UNCHANGED <<dbChatSessions, dbChatMessages, chatSessions, sends, overlap, recVars, pureVars, jobVars>>

\* the handler has written its response; the goroutine ends
Return(t) ==
    /\ req[t].pc = "done"
    /\ req' = [req EXCEPT ![t] = Idle]
    /\ UNCHANGED <<dbChatSessions, dbChatMessages, chatSessions, sends, overlap, recVars, pureVars, jobVars>>

(***************************************************************************)
(* The data the recommendation requests run on.                            *)
(***************************************************************************)
Plant(id, name, sunlight, fertilizerFrequency, additionalNotes) ==
    [ID |-> id, Name |-> name, Sunlight |-> sunlight,
     FertilizerFrequency |-> fertilizerFrequency, AdditionalNotes |-> additionalNotes]

Aloe == Plant("aloe", "Aloe", SunlightLevelHigh, 2, <<"S", "u", "n", "n", "y", " ", "K", "i", "t", "c", "h", "e", "n">>)
Basil == Plant("basil", "Basil", SunlightLevelMedium, 2, <<"K", "i", "t", "c", "h", "e", "n">>)
Cactus == Plant("cactus", "Cactus", SunlightLevelHigh, 5, << >>)
Fern == Plant("fern", "Fern", SunlightLevelLow, 3, << >>)
Ivy == Plant("ivy", "Ivy", SunlightLevelMedium, 1, << >>)
Orchid == Plant("orchid", "Orchid", SunlightLevelMedium, 4, <<"b", "a", "t", "h">>)

\* what plantRepo.GetAll can find: no plant, two plants, six plants
Catalogs == {<< >>, <<Aloe, Cactus>>, <<Aloe, Basil, Cactus, Fern, Ivy, Orchid>>}

Questionnaire(sunlightPreference, careLevel, petFriendly, hasLocation, location) ==
    [ID |-> 1, SunlightPreference |-> sunlightPreference, CareLevel |-> careLevel,
     PetFriendly |-> petFriendly, HasPreferredLocation |-> hasLocation,
     PreferredLocation |-> location]

Questionnaires ==
    {Questionnaire(SunlightLevelMedium, 2, TRUE, TRUE, <<"k", "i", "t", "c", "h", "e", "n">>),
     Questionnaire(SunlightLevelHigh, 1, FALSE, FALSE, << >>),
     Questionnaire(SunlightLevelLow, 5, FALSE, TRUE, << >>)}

HTTPResponse(transportErr, statusCode, decodes, alternatives) ==
    [transportErr |-> transportErr, StatusCode |-> statusCode, decodes |-> decodes,
     Alternatives |-> alternatives]

\* "1. Aloe - 0.9" / "Bright" / "2. Cactus - 0.5" / "Easy"
ReplyRanked == <<"1", ".", " ", "A", "l", "o", "e", " ", "-", " ", "0", ".", "9", "\n", "B", "r", "i", "g", "h", "t", "\n", "2", ".", " ", "C", "a", "c", "t", "u", "s", " ", "-", " ", "0", ".", "5", "\n", "E", "a", "s", "y">>
\* "Sorry"
ReplyNoEntries == <<"S", "o", "r", "r", "y">>
\* "1. Aloe - 0.9" / "1. Aloe - 0.8"
ReplySamePlantTwice == <<"1", ".", " ", "A", "l", "o", "e", " ", "-", " ", "0", ".", "9", "\n", "1", ".", " ", "A", "l", "o", "e", " ", "-", " ", "0", ".", "8">>

\* "1. A - 0.9" / "2. B - 0.8" / "3. C - 0.7" / "4. D - 0.6" / "5. E - 0.5" / "6. F - 0.4"
ReplySixEntries == <<"1", ".", " ", "A", " ", "-", " ", "0", ".", "9", "\n", "2", ".", " ", "B", " ", "-", " ", "0", ".", "8", "\n", "3", ".", " ", "C", " ", "-", " ", "0", ".", "7", "\n", "4", ".", " ", "D", " ", "-", " ", "0", ".", "6", "\n", "5", ".", " ", "E", " ", "-", " ", "0", ".", "5", "\n", "6", ".", " ", "F", " ", "-", " ", "0", ".", "4">>
\* "1. Aloe - 1.5"
ReplyScoreAboveOne == <<"1", ".", " ", "A", "l", "o", "e", " ", "-", " ", "1", ".", "5">>
\* "0. None - 0.5" / "7. Yew - 0.9" / "2. Cactus - 0.6" / "9. Zed - 0.4"
ReplyOutOfRange == <<"0", ".", " ", "N", "o", "n", "e", " ", "-", " ", "0", ".", "5", "\n", "7", ".", " ", "Y", "e", "w", " ", "-", " ", "0", ".", "9", "\n", "2", ".", " ", "C", "a", "c", "t", "u", "s", " ", "-", " ", "0", ".", "6", "\n", "9", ".", " ", "Z", "e", "d", " ", "-", " ", "0", ".", "4">>

\* what the completion endpoint can answer
Responses ==
    {HTTPResponse(TRUE, 0, FALSE, << >>),
     HTTPResponse(FALSE, 500, TRUE, << >>),
     HTTPResponse(FALSE, 201, TRUE, <<ReplyRanked>>),
     HTTPResponse(FALSE, 200, FALSE, << >>),
     HTTPResponse(FALSE, 200, TRUE, << >>),
     HTTPResponse(FALSE, 200, TRUE, <<ReplyNoEntries>>),
     HTTPResponse(FALSE, 200, TRUE, <<ReplyRanked>>),
     HTTPResponse(FALSE, 200, TRUE, <<ReplySamePlantTwice, ReplyRanked>>),
     HTTPResponse(FALSE, 200, TRUE, <<ReplySixEntries>>),
     HTTPResponse(FALSE, 200, TRUE, <<ReplyScoreAboveOne>>),
     HTTPResponse(FALSE, 200, TRUE, <<ReplyOutOfRange>>)}

\* a call of GetRecommendations (op "get") or GenerateRecommendations
\* (op "generate") arrives
RecBegin(t, op, questionnaireID) ==
    /\ RecCanBegin(t)
    /\ recCalls < MaxRecCalls
    /\ recCalls' = recCalls + 1
    /\ rreq' = [rreq EXCEPT ![t] =
                   [RecIdle EXCEPT !.op = op, !.questionnaireID = questionnaireID,
                                   !.later = op = "get" /\ questionnaireID \in getsServed,
                                   !.pc = IF op = "get" THEN "getRecommendations"
                                          ELSE "getQuestionnaire"]]
    /\ UNCHANGED <<chatVars, pureVars, jobVars, getsServed, yandexGPTAPIKey, dbQuestionnaires, dbPlants, dbRecommendations,
                   httpRequests, lastServed>>

\* GetRecommendations with the check for stored rows removed
GetStored_AlwaysGenerate(t) ==
    /\ rreq[t].pc = "getRecommendations"
    /\ rreq' = [rreq EXCEPT ![t].pc = "getQuestionnaire"]
    /\ UNCHANGED <<chatVars, pureVars, jobVars, getsServed, yandexGPTAPIKey, dbQuestionnaires, dbPlants, dbRecommendations,
                   httpRequests, recCalls, lastServed>>

\* GetRecommendations: recommendationRepo.GetRecommendations, then
\* if len(recommendations) == 0 { return s.GenerateRecommendations(...) }
GetStored(t) ==
    /\ rreq[t].pc = "getRecommendations"
    /\ IF Len(GetStoredRecommendations(rreq[t].questionnaireID)) = 0
         THEN rreq' = [rreq EXCEPT ![t].pc = "getQuestionnaire"]
         ELSE rreq' = [rreq EXCEPT ![t].pc = "getRecommendedPlants", ![t].fromStore = TRUE]
    /\ UNCHANGED <<chatVars, pureVars, jobVars, getsServed, yandexGPTAPIKey, dbQuestionnaires, dbPlants, dbRecommendations,
                   httpRequests, recCalls, lastServed>>

\* GenerateRecommendations: recommendationRepo.GetQuestionnaire
GenGetQuestionnaire(t) ==
    /\ rreq[t].pc = "getQuestionnaire"
    /\ IF rreq[t].questionnaireID \in DOMAIN dbQuestionnaires
         THEN rreq' = [rreq EXCEPT ![t].pc = "getAll",
                                   ![t].questionnaire = dbQuestionnaires[rreq[t].questionnaireID]]
         ELSE RecReturns(t, "failed to get questionnaire", << >>)
    /\ UNCHANGED <<chatVars, pureVars, jobVars, getsServed, yandexGPTAPIKey, dbQuestionnaires, dbPlants, dbRecommendations,
                   httpRequests, recCalls, lastServed>>

\* the request goes on to the loop over the recommendations
Generated(t, allPlants, recommendations, source) ==
    rreq' = [rreq EXCEPT ![t].allPlants = allPlants,
                         ![t].recommendations = recommendations,
                         ![t].source = source,
                         ![t].pc = IF Len(recommendations) = 0 THEN "getRecommendedPlants"
                                   ELSE "save"]

\* plantRepo.GetAll; without an API key the local scorer runs at once
GenGetAll(t) ==
    /\ rreq[t].pc = "getAll"
    /\ IF yandexGPTAPIKey # ""
         THEN rreq' = [rreq EXCEPT ![t].pc = "callAPI", ![t].allPlants = dbPlants]
         ELSE Generated(t, dbPlants,
                        generateLocalRecommendations(rreq[t].questionnaire, dbPlants), "local")
    /\ UNCHANGED <<chatVars, pureVars, jobVars, getsServed, yandexGPTAPIKey, dbQuestionnaires, dbPlants, dbRecommendations,
                   httpRequests, recCalls, lastServed>>

\* generateRecommendationsWithYandexGPT; on any error of it
\* generateLocalRecommendations
GenCallAPI(t, resp) ==
    /\ rreq[t].pc = "callAPI"
    /\ httpRequests' = httpRequests + 1
    /\ LET external == generateRecommendationsWithYandexGPT(resp, rreq[t].questionnaire,
                                                            rreq[t].allPlants)
       IN  IF external.err # NoError
             THEN Generated(t, rreq[t].allPlants,
                            generateLocalRecommendations(rreq[t].questionnaire, rreq[t].allPlants),
                            "fallback")
             ELSE Generated(t, rreq[t].allPlants, external.recommendations, "external")
    /\ UNCHANGED <<chatVars, pureVars, jobVars, getsServed, yandexGPTAPIKey, dbQuestionnaires, dbPlants, dbRecommendations,
                   recCalls, lastServed>>

\* one round of the loop: recommendationRepo.SaveRecommendation
GenSave(t) ==
    /\ rreq[t].pc = "save"
    /\ LET result == SaveRecommendation(dbRecommendations,
                                        rreq[t].recommendations[rreq[t].saved + 1])
       IN  IF result.err # NoError
             THEN /\ RecReturns(t, "failed to save recommendation", << >>)
                  /\ UNCHANGED <<dbRecommendations, lastServed>>
             ELSE /\ dbRecommendations' = result.table
                  /\ lastServed' = [q \in DOMAIN lastServed |-> << >>]
                  /\ rreq' = [rreq EXCEPT ![t].saved = @ + 1,
                                          ![t].pc = IF rreq[t].saved + 1 = Len(rreq[t].recommendations)
                                                      THEN "getRecommendedPlants" ELSE "save"]
    /\ UNCHANGED <<chatVars, pureVars, jobVars, getsServed, yandexGPTAPIKey, dbQuestionnaires, dbPlants, httpRequests, recCalls>>

\* recommendationRepo.GetRecommendedPlants and the return of its result
GenGetRecommendedPlants(t) ==
    /\ rreq[t].pc = "getRecommendedPlants"
    /\ RecReturns(t, NoError, GetRecommendedPlants(rreq[t].questionnaireID))
    /\ getsServed' = IF rreq[t].op = "get" THEN getsServed \cup {rreq[t].questionnaireID}
                       ELSE getsServed
    /\ lastServed' = IF rreq[t].fromStore
                       THEN [lastServed EXCEPT ![rreq[t].questionnaireID] =
                                <<GetRecommendedPlants(rreq[t].questionnaireID)>>]
                       ELSE lastServed
    /\ UNCHANGED <<chatVars, pureVars, jobVars, yandexGPTAPIKey, dbQuestionnaires, dbPlants, dbRecommendations,
                   httpRequests, recCalls>>

\* the handler has written its response; the goroutine ends
RecReturn(t) ==
    /\ rreq[t].pc = "done"
    /\ rreq' = [rreq EXCEPT ![t] = RecIdle]
    /\ UNCHANGED <<chatVars, pureVars, jobVars, getsServed, yandexGPTAPIKey, dbQuestionnaires, dbPlants, dbRecommendations,
                   httpRequests, recCalls, lastServed>>

(***************************************************************************)
(* generateLocalRecommendations called on its own.                         *)
(***************************************************************************)
ScorerIdle ==
    [pc |-> "idle", questionnaire |-> NoQuestionnaire, allPlants |-> << >>, outs |-> << >>]

SunlightLevels == {SunlightLevelLow, SunlightLevelMedium, SunlightLevelHigh}

\* careLevel is validated min=1, max=5
CareLevels == 1..5

\* no preferred location, the empty string, "kitchen"
Locations == {<<FALSE, << >> >>, <<TRUE, << >> >>, <<TRUE, <<"k", "i", "t", "c", "h", "e", "n">>>>}

ScorerQuestionnaires ==
    {Questionnaire(sunlight, careLevel, petFriendly, location[1], location[2]) :
        sunlight \in SunlightLevels, careLevel \in CareLevels, petFriendly \in BOOLEAN,
        location \in Locations}

FullCatalog == <<Aloe, Basil, Cactus, Fern, Ivy, Orchid>>

\* every list plantRepo.GetAll can return over these plants, ORDER BY name
ScorerCatalogs ==
    {SelectSeq(FullCatalog, LAMBDA plant : plant.ID \in kept) :
        kept \in SUBSET {FullCatalog[i].ID : i \in 1..Len(FullCatalog)}}

\* the method is called, a first and a second time, with the same arguments
ScoreCall ==
    /\ scorer.pc \in {"ready", "once"}
    /\ scorer' = [scorer EXCEPT
                     !.pc = IF scorer.pc = "ready" THEN "once" ELSE "twice",
                     !.outs = Append(@, generateLocalRecommendations(scorer.questionnaire,
                                                                     scorer.allPlants))]
    /\ UNCHANGED <<chatVars, recVars, parser, client, jobVars>>

(***************************************************************************)
(* parseYandexGPTResponse called on its own, one line of its loop per      *)
(* step.                                                                   *)
(***************************************************************************)
ParserIdle ==
    [pc |-> "idle", allPlants |-> << >>, entries |-> << >>, format |-> "none",
     malformed |-> << >>, malformedAt |-> 0, lines |-> << >>, lineNo |-> 0,
     st |-> ParserStart, result |-> ParseResult(<< >>)]

\* a catalog whose first plant has a name of two words
AloeVera == Plant("aloe", "Aloe Vera", SunlightLevelHigh, 2, << >>)

ParserCatalogs == {<<AloeVera, Cactus>>, FullCatalog}

\* plant.Name as the characters a reply spells it with
NameText(name) ==
    CASE name = "Aloe" -> <<"A", "l", "o", "e">>
      [] name = "Aloe Vera" -> <<"A", "l", "o", "e", " ", "V", "e", "r", "a">>
      [] name = "Basil" -> <<"B", "a", "s", "i", "l">>
      [] name = "Cactus" -> <<"C", "a", "c", "t", "u", "s">>
      [] name = "Fern" -> <<"F", "e", "r", "n">>
      [] name = "Ivy" -> <<"I", "v", "y">>
      [] name = "Orchid" -> <<"O", "r", "c", "h", "i", "d">>

\* one entry of a reply: the number of a plant of the list, the score as
\* the reply writes it and as the number of hundredths it denotes, and the
\* lines of explanation
Entry(index, scoreText, score, reasoning) ==
    [index |-> index, scoreText |-> scoreText, score |-> score, reasoning |-> reasoning]

Entries ==
    {Entry(1, <<"0", ".", "9">>, 90, <<<<"B", "r", "i", "g", "h", "t">>>>),
     Entry(2, <<"0", ".", "5">>, 50, <<<<"E", "a", "s", "y">>, <<"D", "r", "y">>>>),
     Entry(2, <<"1">>, 100, << >>),
     Entry(1, <<"0", ".", "8", "5">>, 85, <<<<"O", "k">>>>)}

MaxEntries == 2

EntryLists == UNION {[1..n -> Entries] : n \in 1..MaxEntries}

\* "parser": the line the parser scans for, <index>. <name> - <score>
\* "prompt": the line the prompt asks for, N. <index>. <name> - <score>
Formats == {"parser", "prompt"}

DigitText(n) ==
    CASE n = 0 -> "0" [] n = 1 -> "1" [] n = 2 -> "2" [] n = 3 -> "3" [] n = 4 -> "4"
      [] n = 5 -> "5" [] n = 6 -> "6" [] n = 7 -> "7" [] n = 8 -> "8" [] n = 9 -> "9"

RECURSIVE Itoa(_)
Itoa(n) == IF n < 10 THEN <<DigitText(n)>> ELSE Append(Itoa(n \div 10), DigitText(n % 10))

HeaderLine(entry, rank, format, allPlants) ==
    (IF format = "prompt" THEN Itoa(rank) \o <<".", " ">> ELSE << >>)
      \o Itoa(entry.index) \o <<".", " ">> \o NameText(allPlants[entry.index].Name)
      \o <<" ", "-", " ">> \o entry.scoreText

RECURSIVE ReplyLines(_, _, _, _)
\* the lines of the reply that lists entries from the i-th on
ReplyLines(entries, i, format, allPlants) ==
    IF i > Len(entries) THEN << >>
    ELSE <<HeaderLine(entries[i], i, format, allPlants)>> \o entries[i].reasoning
           \o ReplyLines(entries, i + 1, format, allPlants)

\* lines that are no entry: no number in front, a number below 1, a number
\* beyond every catalog
MalformedLines ==
    {<<"N", "o", "t", "e">>,
     <<"0", ".", " ", "Z", "e", "d", " ", "-", " ", "0", ".", "5">>,
     <<"7", ".", " ", "Y", "e", "w", " ", "-", " ", "0", ".", "5">>,
     <<"-", "1", ".", " ", "N", "e", "g", " ", "-", " ", "0", ".", "5">>}

\* lines with line put in as the at-th line; at = 0 puts nothing in
InsertLine(lines, at, line) ==
    IF at = 0 THEN lines
    ELSE SubSeq(lines, 1, at - 1) \o <<line>> \o SubSeq(lines, at, Len(lines))

RECURSIVE JoinLines(_)
JoinLines(lines) ==
    IF lines = << >> THEN << >>
    ELSE IF Len(lines) = 1 THEN lines[1]
    ELSE lines[1] \o <<"\n">> \o JoinLines(Tail(lines))

\* the text of the reply
ResponseText(entries, format, allPlants, malformed, at) ==
    JoinLines(InsertLine(ReplyLines(entries, 1, format, allPlants), at, malformed))

\* lines := bytes.Split([]byte(response), []byte("\n")) and the loop
\* variables declared
ParserCalled(entries, format, allPlants, malformed, at) ==
    [pc |-> "lines", allPlants |-> allPlants, entries |-> entries, format |-> format,
     malformed |-> malformed, malformedAt |-> at,
     lines |-> Split(ResponseText(entries, format, allPlants, malformed, at), << >>),
     lineNo |-> 0, st |-> ParserStart, result |-> ParseResult(<< >>)]

\* one turn of the loop over the lines
ParseNextLine ==
    /\ parser.pc = "lines"
    /\ parser.lineNo < Len(parser.lines)
    /\ parser' = [parser EXCEPT
                     !.lineNo = @ + 1,
                     !.st = ParseLine(@, parser.lines[parser.lineNo + 1], 1, parser.allPlants)]
    /\ UNCHANGED <<chatVars, recVars, scorer, client, jobVars>>

\* after the loop: the last plant is saved and the method returns
ParseFinish ==
    /\ parser.pc = "lines"
    /\ parser.lineNo = Len(parser.lines)
    /\ parser' = [parser EXCEPT
                     !.pc = "done",
                     !.result = ParseResult(Flush(parser.st, 1, parser.allPlants))]
    /\ UNCHANGED <<chatVars, recVars, scorer, client, jobVars>>

(***************************************************************************)
(* callYandexGPTAPI called on its own: client.Do, then the reading of the  *)
(* response.                                                               *)
(***************************************************************************)
NoResponse == HTTPResponse(FALSE, 0, FALSE, << >>)

ClientIdle ==
    [pc |-> "idle", mode |-> "none", resp |-> NoResponse, requests |-> 0,
     out |-> [err |-> NoError, text |-> << >>]]

\* the status codes the endpoint or a proxy before it can answer with
StatusCodes == {200, 201, 204, 301, 400, 401, 429, 500, 503}

\* the alternatives of a body that decodes
AlternativeLists ==
    {<< >>, <<ReplyRanked>>, <<ReplyNoEntries>>, <<ReplySamePlantTwice, ReplyRanked>>,
     <<ReplyNoEntries, ReplyRanked, ReplyOutOfRange>>}

\* what client.Do can come back with: a transport error, or a response with
\* a status and a body that decodes into alternatives or does not
ClientResponses ==
    {HTTPResponse(TRUE, 0, FALSE, << >>)}
      \cup {HTTPResponse(FALSE, statusCode, FALSE, << >>) : statusCode \in StatusCodes}
      \cup {HTTPResponse(FALSE, statusCode, TRUE, alternatives) :
               statusCode \in StatusCodes, alternatives \in AlternativeLists}

\* the request is built and client.Do(req) sends it; a transport error
\* returns at once
ClientDo(resp) ==
    /\ client.pc = "ready"
    /\ client' = [client EXCEPT
                     !.requests = @ + 1,
                     !.resp = resp,
                     !.pc = IF resp.transportErr THEN "done" ELSE "response",
                     !.out = IF resp.transportErr THEN callYandexGPTAPI(resp) ELSE @]
    /\ UNCHANGED <<chatVars, recVars, scorer, parser, jobVars>>

\* the status is checked, the body decoded, the first alternative returned
ClientRead ==
    /\ client.pc = "response"
    /\ client' = [client EXCEPT !.pc = "done", !.out = callYandexGPTAPI(client.resp)]
    /\ UNCHANGED <<chatVars, recVars, scorer, parser, jobVars>>

(***************************************************************************)
(* WateringNotificationsJob                                                *)
(***************************************************************************)
\* the counts of sweeps, logged errors and dropped ticks are kept up to here
MaxSweeps == 3

Counted(n) == IF n < MaxSweeps THEN n + 1 ELSE n

\* NewWateringNotificationsJob: the stop channel is made, nothing runs.
\* pc is where the goroutine of Start stands, tickerC the number of ticks
\* waiting in ticker.C (a channel of capacity 1), running the number of
\* calls of checkAndCreateNotifications in progress
JobCreated ==
    [pc |-> "none", ticker |-> "none", tickerC |-> 0, stopChan |-> "open",
     running |-> 0, sweeps |-> 0, errors |-> 0, dropped |-> 0]

\* Start: time.NewTicker and the goroutine, which comes to its select
JobStart ==
    /\ job.pc = "none"
    /\ job' = [job EXCEPT !.ticker = "running", !.pc = "select"]
    /\ UNCHANGED <<chatVars, recVars, pureVars>>

\* the interval has passed: the ticker sends on ticker.C, or drops the tick
\* when the one before has not been received
Tick ==
    /\ job.ticker = "running"
    /\ job' = IF job.tickerC = 0 THEN [job EXCEPT !.tickerC = 1]
               ELSE [job EXCEPT !.dropped = Counted(@)]
    /\ UNCHANGED <<chatVars, recVars, pureVars>>

\* Stop: close(j.stopChan), by the caller of Start, once
JobStop ==
    /\ job.pc # "none"
    /\ job.stopChan = "open"
    /\ job' = [job EXCEPT !.stopChan = "closed"]
    /\ UNCHANGED <<chatVars, recVars, pureVars>>

\* select with every tick handed to a goroutine of its own
SelectTick_Spawn ==
    /\ job.pc = "select"
    /\ job.tickerC = 1
    /\ job.running < MaxSweeps
    /\ job' = [job EXCEPT !.tickerC = 0, !.running = @ + 1, !.sweeps = Counted(@)]
    /\ UNCHANGED <<chatVars, recVars, pureVars>>

\* select takes case <-ticker.C and calls checkAndCreateNotifications
SelectTick ==
    /\ job.pc = "select"
    /\ job.tickerC = 1
    /\ job' = [job EXCEPT !.tickerC = 0, !.pc = "sweep", !.running = @ + 1,
                          !.sweeps = Counted(@)]
    /\ UNCHANGED <<chatVars, recVars, pureVars>>

\* select that takes the stop case only when no tick waits
SelectStop_TickFirst ==
    /\ job.pc = "select"
    /\ job.stopChan = "closed"
    /\ job.tickerC = 0
    /\ job' = [job EXCEPT !.ticker = "stopped", !.pc = "exited"]
    /\ UNCHANGED <<chatVars, recVars, pureVars>>

\* select takes case <-j.stopChan: ticker.Stop() and return
SelectStop ==
    /\ job.pc = "select"
    /\ job.stopChan = "closed"
    /\ job' = [job EXCEPT !.ticker = "stopped", !.pc = "exited"]
    /\ UNCHANGED <<chatVars, recVars, pureVars>>

\* checkAndCreateNotifications returns; an error is logged
SweepReturn(failed) ==
    /\ job.running > 0
    /\ job' = [job EXCEPT !.running = @ - 1,
                          !.pc = IF @ = "sweep" THEN "select" ELSE @,
                          !.errors = IF failed THEN Counted(@) ELSE @]
    /\ UNCHANGED <<chatVars, recVars, pureVars>>

(***************************************************************************)
(* Specifications                                                          *)
(***************************************************************************)
ChatInit(o) ==
    /\ dbChatSessions = << >>
    /\ dbChatMessages = [s \in SessionIDs |-> << >>]
    /\ chatSessions = << >>
    /\ req = [t \in Threads |-> Idle]
    /\ sends = 0
    /\ overlap = o

\* the process has started and no recommendation request has arrived
RecInit(key, questionnaires, plants) ==
    /\ yandexGPTAPIKey = key
    /\ dbQuestionnaires = questionnaires
    /\ dbPlants = plants
    /\ dbRecommendations = << >>
    /\ rreq = [t \in Threads |-> RecIdle]
    /\ httpRequests = 0
    /\ recCalls = 0
    /\ lastServed = [q \in QuestionnaireIDs |-> << >>]
    /\ getsServed = {}

\* no call of the scorer or of the parser on its own is under way
PureInit ==
    /\ scorer = ScorerIdle
    /\ parser = ParserIdle
    /\ client = ClientIdle
    /\ job = JobCreated

Init == ChatInit(TRUE) /\ RecInit("key", << >>, << >>) /\ PureInit

InitLong == ChatInit(FALSE) /\ RecInit("key", << >>, << >>) /\ PureInit

InitRec ==
    /\ ChatInit(TRUE)
    /\ PureInit
    /\ \E key \in {"", "key"}, questionnaire \in Questionnaires, plants \in Catalogs :
          RecInit(key, (1 :> questionnaire), plants)

Next ==
    \/ NewRecommendationService
    \/ \E t \in Threads, u \in Users : CreateBegin(t, u)
    \/ \E t \in Threads : CreateRow(t)
    \/ \E t \in Threads : CreateMapWrite(t)
    \/ \E t \in Threads, s \in SessionIDs, u \in Users : SendBegin(t, s, u)
    \/ \E t \in Threads : SendGetSession(t)
    \/ \E t \in Threads, dbOk \in BOOLEAN : SendSaveUser(t, dbOk)
    \/ \E t \in Threads, dbOk \in BOOLEAN : SendGetMessages(t, dbOk)
    \/ \E t \in Threads : SendMapRead(t)
    \/ \E t \in Threads, apiOk \in BOOLEAN : SendCallAPI(t, apiOk)
    \/ \E t \in Threads, dbOk \in BOOLEAN : SendSaveAssistant(t, dbOk)
    \/ \E t \in Threads : SendMapWrite(t)
    \/ \E t \in Threads, dbOk \in BOOLEAN : SendUpdateLastUsed(t, dbOk)
    \/ \E t \in Threads, s \in SessionIDs, u \in Users : ReadBegin(t, s, u)
    \/ \E t \in Threads : ReadGetSession(t)
    \/ \E t \in Threads, dbOk \in BOOLEAN : ReadGetMessages(t, dbOk)
    \/ \E t \in Threads : Return(t)

Spec == Init /\ [][Next]_vars

SpecLong == InitLong /\ [][Next]_vars

NextRec ==
    \/ NewRecommendationService
    \/ \E t \in Threads, op \in {"get", "generate"}, q \in QuestionnaireIDs : RecBegin(t, op, q)
    \/ \E t \in Threads : GetStored(t)
    \/ \E t \in Threads : GenGetQuestionnaire(t)
    \/ \E t \in Threads : GenGetAll(t)
    \/ \E t \in Threads, resp \in Responses : GenCallAPI(t, resp)
    \/ \E t \in Threads : GenSave(t)
    \/ \E t \in Threads : GenGetRecommendedPlants(t)
    \/ \E t \in Threads : RecReturn(t)

SpecRec == InitRec /\ [][NextRec]_vars

InitScorer ==
    /\ ChatInit(TRUE)
    /\ RecInit("", << >>, << >>)
    /\ parser = ParserIdle
    /\ client = ClientIdle
    /\ job = JobCreated
    /\ \E questionnaire \in ScorerQuestionnaires, allPlants \in ScorerCatalogs :
          scorer = [pc |-> "ready", questionnaire |-> questionnaire, allPlants |-> allPlants,
                    outs |-> << >>]

NextScorer == ScoreCall

InitParser ==
    /\ ChatInit(TRUE)
    /\ RecInit("", << >>, << >>)
    /\ scorer = ScorerIdle
    /\ client = ClientIdle
    /\ job = JobCreated
    /\ \E allPlants \in ParserCatalogs, entries \in EntryLists \cup {<< >>}, format \in Formats :
          \/ parser = ParserCalled(entries, format, allPlants, << >>, 0)
          \/ \E malformed \in MalformedLines :
                \E at \in 1..(Len(ReplyLines(entries, 1, format, allPlants)) + 1) :
                  parser = ParserCalled(entries, format, allPlants, malformed, at)

NextParser ==
    \/ ParseNextLine
    \/ ParseFinish

SpecParser == InitParser /\ [][NextParser]_vars

InitClient ==
    /\ ChatInit(TRUE)
    /\ RecInit("key", << >>, << >>)
    /\ scorer = ScorerIdle
    /\ parser = ParserIdle
    /\ job = JobCreated
    /\ \E mode \in {"prompt", "messages"} :
          client = [ClientIdle EXCEPT !.pc = "ready", !.mode = mode]

NextClient ==
    \/ \E resp \in ClientResponses : ClientDo(resp)
    \/ ClientRead

SpecClient == InitClient /\ [][NextClient]_vars

\* main has built the services and the job
InitJob == ChatInit(TRUE) /\ RecInit("key", << >>, << >>) /\ PureInit

NextJob ==
    \/ JobStart
    \/ Tick
    \/ JobStop
    \/ SelectTick
    \/ SelectStop
    \/ \E failed \in BOOLEAN : SweepReturn(failed)

SpecJob == InitJob /\ [][NextJob]_vars

\* a sweep returns; a select that can take the stop case again and again
\* takes it in the end, as a choice made at random among the ready cases does
SpecJobFair ==
    /\ InitJob
    /\ [][NextJob]_vars
    /\ WF_vars(\E failed \in BOOLEAN : SweepReturn(failed))
    /\ SF_vars(SelectStop)

SpecScorer == InitScorer /\ [][NextScorer]_vars

(***************************************************************************)
(* Properties of the chat session manager                                  *)
(***************************************************************************)
Owner(s) == dbChatSessions[s].UserID

UserRow(t) == [UserID |-> req[t].userID, Role |-> "user", Content |-> req[t].message]

Rows(s) == {dbChatMessages[s][i] : i \in 1..Len(dbChatMessages[s])}

\* the process was restarted in this step: the request was dropped, not answered
Dropped(t) == req'[t] = Idle

\* C1: a SendChatMessage on a session that already holds more than 10
\* persisted turns hands the external client exactly 12 messages: the system
\* directive, the last 10 persisted turns in creation order, the new user
\* message.  The last 10 are read either way the sentence allows: of the rows
\* as reloaded (the new turn among them) or of the rows before this call.
C1_ContextBounded ==
    \A t \in Threads :
        (req[t].op = "send" /\ req[t].pc = "callAPI" /\ Len(req[t].dbMessages) > maxMessages + 1)
        => LET new == [Role |-> "user", Text |-> req[t].message]
               before == SubSeq(req[t].dbMessages, 1, Len(req[t].dbMessages) - 1)
           IN  /\ Len(req[t].messages) = maxMessages + 2
               /\ \/ req[t].messages = <<systemMessage>> \o DbTail(req[t].dbMessages) \o <<new>>
                  \/ req[t].messages = <<systemMessage>> \o DbTail(before) \o <<new>>

\* C2: SendChatMessage and GetChatMessages by a user who does not own the
\* session return an error at the ownership check, and that step persists no
\* turn and leaves the working set and the last-used timestamp alone; no
\* request of a non-owner gets past the check (so it never persists a turn,
\* calls the external client or writes the map), and every persisted turn of
\* a session carries the owner's identity.
C2_PastCheckIsOwner ==
    /\ \A t \in Threads :
        (req[t].op \in {"send", "read"} /\ req[t].pc \notin {"idle", "getSession", "done"})
        => Owner(req[t].sessionID) = req[t].userID
    /\ \A t \in Threads :
        (req[t].op \in {"send", "read"} /\ req[t].pc = "done" /\ req[t].sessionID \in Created
            /\ Owner(req[t].sessionID) # req[t].userID)
        => req[t].err # NoError /\ req[t].out = << >>
    /\ \A s \in Created : \A r \in Rows(s) : r.UserID = Owner(s)

C2_RejectStep ==
    \A t \in Threads :
        (/\ req[t].op \in {"send", "read"} /\ req[t].pc = "getSession"
         /\ req[t].sessionID \in Created /\ Owner(req[t].sessionID) # req[t].userID
         /\ req'[t] # req[t] /\ ~Dropped(t))
        => /\ req'[t].pc = "done"
           /\ req'[t].err = "user does not own this chat session"
           /\ UNCHANGED <<dbChatMessages, chatSessions, dbChatSessions>>

C2_NonOwnerRejected == []C2_PastCheckIsOwner /\ [][C2_RejectStep]_vars

C2_Witness ==
    \E t \in Threads :
        /\ req[t].op = "send" /\ req[t].pc = "done"
        /\ req[t].err = "user does not own this chat session"
        /\ dbChatMessages[req[t].sessionID] # << >>
        /\ req[t].sessionID \in DOMAIN chatSessions

\* C3: two SendChatMessage calls on one session are serialized: while one is
\* between persisting its user turn and finishing, the other is not, and so
\* every persisted assistant turn directly follows the user turn it answers.
InSteps(t) ==
    /\ req[t].op = "send"
    /\ req[t].pc \in {"getMessages", "mapRead", "callAPI", "saveAssistant", "mapWrite", "updateLastUsed"}

TurnsPaired(s) ==
    \A i \in 1..Len(dbChatMessages[s]) :
        dbChatMessages[s][i].Role = "assistant"
        => /\ i > 1
           /\ dbChatMessages[s][i - 1].Role = "user"
           /\ dbChatMessages[s][i - 1].Content = dbChatMessages[s][i].Content

C3_SendsSerialized ==
    /\ \A t1, t2 \in Threads :
        (t1 # t2 /\ InSteps(t1) /\ InSteps(t2)) => req[t1].sessionID # req[t2].sessionID
    /\ \A s \in SessionIDs : TurnsPaired(s)

\* C4: no request writes the chatSessions map while another request reads or
\* writes it.  A request whose next statement is a map access is at it with
\* nothing ordering it against the others.
MapWriters == {t \in Threads : req[t].pc \in {"createMapWrite", "mapWrite"}}

MapReaders == {t \in Threads : req[t].pc = "mapRead"}

C4_MapMutualExclusion ==
    \A t1 \in MapWriters : \A t2 \in MapWriters \cup MapReaders : t1 = t2

\* C5: the list handed to the external client is the one rebuilt from the
\* fixed system directive and the persisted turns, whether or not the
\* session has an entry in chatSessions.
C5_CacheOnly ==
    \A t \in Threads :
        (req[t].op = "send" /\ req[t].pc = "callAPI")
        => req[t].messages = BuildMessages(<<systemMessage>>, req[t].dbMessages, req[t].message)

\* C6: the working set a successful SendChatMessage stored is the system
\* directive followed by strictly alternating user / assistant messages, no
\* turn twice; when the call started from the system directive alone it has
\* exactly 3 entries: system, the user message, the reply.
Alternating(ws) ==
    /\ Len(ws) >= 1 /\ ws[1] = systemMessage
    /\ \A i \in 2..Len(ws) : ws[i].Role = (IF i % 2 = 0 THEN "user" ELSE "assistant")
    /\ \A i, j \in 1..Len(ws) : ws[i] = ws[j] => i = j

C6_StoredStep ==
    \A t \in Threads :
        (req[t].pc = "updateLastUsed" /\ req'[t].pc = "done" /\ req'[t].err = NoError)
        => /\ Alternating(req[t].messages)
           /\ req[t].sessionMessages = <<systemMessage>>
              => req[t].messages = <<systemMessage,
                                     [Role |-> "user", Text |-> req[t].message],
                                     [Role |-> "assistant", Text |-> req[t].response]>>

C6_WorkingSetAlternates == [][C6_StoredStep]_vars

\* C7: when the external call of a SendChatMessage fails, the call returns
\* that error with no reply, no assistant turn of the call is ever persisted
\* while its user turn stays stored, and the failing step changes neither the
\* working set nor the last-used timestamp nor the stored turns.
C7_FailedCallState ==
    \A t \in Threads :
        req[t].apiErr
        => /\ req[t].pc = "done"
           /\ req[t].err = "failed to call Yandex GPT API"
           /\ req[t].out = << >>
           /\ UserRow(t) \in Rows(req[t].sessionID)
           /\ \A r \in Rows(req[t].sessionID) : ~(r.Role = "assistant" /\ r.Content = req[t].message)

C7_FailStep ==
    \A t \in Threads :
        (req[t].pc = "callAPI" /\ req'[t].apiErr)
        => UNCHANGED <<chatSessions, dbChatSessions, dbChatMessages>>

C7_NoFallbackInChat == []C7_FailedCallState /\ [][C7_FailStep]_vars

C7_Witness ==
    \E t \in Threads :
        /\ req[t].apiErr /\ req[t].pc = "done"
        /\ Len(dbChatMessages[req[t].sessionID]) >= 3
        /\ req[t].sessionID \in DOMAIN chatSessions
        /\ Len(chatSessions[req[t].sessionID]) > 1

(***************************************************************************)
(* Properties of GetRecommendations / GenerateRecommendations              *)
(***************************************************************************)
\* the request of t was cut off by a restart
RecDropped(t) == rreq'[t] = RecIdle

\* the request of t takes a step of its own
RecSteps(t) == rreq'[t] # rreq[t] /\ ~RecDropped(t)

StoredPlants(q) == {StoredFor(q)[i].PlantID : i \in 1..Len(StoredFor(q))}

StoredScore(q, p) ==
    StoredFor(q)[CHOOSE i \in 1..Len(StoredFor(q)) : StoredFor(q)[i].PlantID = p].Score

\* out lists every stored plant of q once, scores never rising
IsStoredRanking(out, q) ==
    /\ Len(out) = Len(StoredFor(q))
    /\ {out[i] : i \in 1..Len(out)} = StoredPlants(q)
    /\ \A i, j \in 1..Len(out) : i < j => StoredScore(q, out[i]) >= StoredScore(q, out[j])

\* C8: with recommendations already stored for the questionnaire,
\* GetRecommendations goes from its look at the store straight to
\* GetRecommendedPlants: it loads neither the questionnaire nor the catalog,
\* sends no HTTP request, stores nothing, and returns without error the
\* stored plants ordered by score; a call that follows another such call with
\* the table unchanged returns the same list.
C8_StoredCallStep ==
    \A t \in Threads :
        LET q == rreq[t].questionnaireID IN
        /\ (/\ rreq[t].op = "get"
            /\ rreq[t].pc = "getRecommendations"
            /\ StoredFor(q) # << >>
            /\ RecSteps(t))
           => /\ rreq'[t].pc = "getRecommendedPlants"
              /\ rreq'[t].fromStore
              /\ rreq'[t].questionnaire = NoQuestionnaire
              /\ rreq'[t].allPlants = << >>
              /\ UNCHANGED <<dbRecommendations, httpRequests>>
        /\ (/\ rreq[t].fromStore
            /\ rreq[t].pc = "getRecommendedPlants"
            /\ RecSteps(t))
           => /\ rreq'[t].pc = "done"
              /\ rreq'[t].err = NoError
              /\ IsStoredRanking(rreq'[t].out, q)
              /\ lastServed[q] # << >> => rreq'[t].out = lastServed[q][1]
              /\ UNCHANGED <<dbRecommendations, httpRequests>>

LocalFor(q) == generateLocalRecommendations(dbQuestionnaires[q], dbPlants)

\* C9: a generation whose external pipeline failed (API key configured;
\* transport error, status other than 200, undecodable body, no
\* alternatives, nothing parsed) returns without error, having stored
\* exactly the recommendations of generateLocalRecommendations for the same
\* questionnaire and catalog; with an empty catalog it returns an empty list.
C9_FallbackReturnStep ==
    \A t \in Threads :
        LET q == rreq[t].questionnaireID IN
        (/\ rreq[t].source = "fallback"
         /\ rreq[t].pc # "done"
         /\ rreq'[t].pc = "done")
        => /\ rreq'[t].err = NoError
           /\ yandexGPTAPIKey # ""
           /\ rreq[t].recommendations = LocalFor(q)
           /\ rreq[t].saved = Len(LocalFor(q))
           /\ \A i \in 1..Len(LocalFor(q)) :
                 \E k \in 1..Len(dbRecommendations') :
                     dbRecommendations'[k] = RowOf(LocalFor(q)[i])
           /\ dbPlants = << >> => rreq'[t].out = << >>

C9_FallbackToLocal == [][C9_FallbackReturnStep]_vars

\* no plant occurs twice in the recommendations of one generation
NoRepeatedPlant(recommendations) ==
    \A i, j \in 1..Len(recommendations) :
        recommendations[i].PlantID = recommendations[j].PlantID => i = j

\* C10: whatever GenerateRecommendations and GetRecommendations calls came
\* before, storing the recommendations of a generation (which names no plant
\* twice) succeeds: SaveRecommendation never fails on
\* UNIQUE(questionnaire_id, plant_id), so a second GenerateRecommendations for
\* a questionnaire with stored recommendations does not return an error.
C10_SaveStep ==
    \A t \in Threads :
        (/\ rreq[t].pc = "save"
         /\ NoRepeatedPlant(rreq[t].recommendations)
         /\ RecSteps(t))
        => /\ rreq'[t].err = NoError
           /\ rreq'[t].saved = rreq[t].saved + 1

C10_RegenerationSucceeds == [][C10_SaveStep]_vars

(***************************************************************************)
(* Properties of what a generation hands to SaveRecommendation             *)
(***************************************************************************)
\* C11: a generation stores at most 5 recommendations, whether they come
\* from generateLocalRecommendations or from the parsed reply.
C11_AtMostFivePersisted ==
    \A t \in Threads : rreq[t].saved <= TopN

FloatOne == [neg |-> FALSE, hi |-> Limb, lo |-> 0]

\* 0 <= x <= 1
InUnitInterval(x) == ~FloatGt(FloatZero, x) /\ ~FloatGt(x, FloatOne)

\* C12: every recommendation the save loop hands to SaveRecommendation has a
\* score in [0, 1], on the local path and on the parsed path.
C12_SavedScoreInUnitInterval ==
    \A t \in Threads :
        rreq[t].pc = "save"
        => InUnitInterval(rreq[t].recommendations[rreq[t].saved + 1].Score)

\* the lines of text that scan as a header whose number is in 1..Len(allPlants)
InRangeHeaders(text, allPlants) ==
    SelectSeq(Split(text, << >>),
              LAMBDA line : Len(line) > 0 /\ StartsPlant(Sscanf(line), allPlants))

\* C13: every recommendation a generation holds, scored locally or parsed,
\* names the questionnaire of the request and a plant of the catalog the
\* request loaded; the parser yields one recommendation per line whose
\* number is in 1..len(catalog) and none for any other number (the catalog
\* never changes, so this part is evaluated before the first request).
C13_IdentitiesFromInputs ==
    /\ \A t \in Threads : \A i \in 1..Len(rreq[t].recommendations) :
          /\ rreq[t].recommendations[i].QuestionnaireID = rreq[t].questionnaireID
          /\ \E k \in 1..Len(rreq[t].allPlants) :
                rreq[t].allPlants[k].ID = rreq[t].recommendations[i].PlantID
    /\ recCalls = 0 =>
        \A resp \in Responses : \A n \in 1..Len(resp.Alternatives) :
          Len(parseYandexGPTResponse(resp.Alternatives[n], 1, dbPlants).recommendations)
            = Len(InRangeHeaders(resp.Alternatives[n], dbPlants))

\* a request holds what the parser made of the reply with the numbers 0, 7,
\* 2 and 9 over the catalog of two plants: the one recommendation for plant 2
C13_Witness ==
    \E t \in Threads :
        /\ rreq[t].source = "external"
        /\ rreq[t].pc = "save"
        /\ Len(rreq[t].allPlants) = 2
        /\ rreq[t].recommendations
              = parseYandexGPTResponse(ReplyOutOfRange, 1, rreq[t].allPlants).recommendations
        /\ Len(rreq[t].recommendations) = 1
        /\ rreq[t].recommendations[1].PlantID = rreq[t].allPlants[2].ID

(***************************************************************************)
(* Properties of generateLocalRecommendations                              *)
(***************************************************************************)
\* a rule's weight as the decimal number of hundredths the source writes
DecimalWeight(w) ==
    CASE w = Weight04 -> 40 [] w = Weight03 -> 30 [] w = Weight02 -> 20
      [] w = Weight015 -> 15 [] w = Weight01 -> 10

RECURSIVE DecimalSum(_)
DecimalSum(rules) ==
    IF rules = << >> THEN 0 ELSE DecimalWeight(Head(rules).w) + DecimalSum(Tail(rules))

PlantOf(allPlants, id) == allPlants[CHOOSE k \in 1..Len(allPlants) : allPlants[k].ID = id]


\* C14: no plant in the output of generateLocalRecommendations has fired-rule
\* weights that sum, as decimal numbers, to 0.3 or less; a plant that
\* collects only the adjacent-sunlight 0.2 and the pet 0.1 is left out.
C14_ThresholdStrict ==
    \A n \in 1..Len(scorer.outs) : \A i \in 1..Len(scorer.outs[n]) :
        DecimalSum(FiredRules(scorer.questionnaire,
                              PlantOf(scorer.allPlants, scorer.outs[n][i].PlantID))) > 30

\* the rule table in hundredths: sunlight levels by their place on the scale
LevelRank(level) ==
    CASE level = SunlightLevelLow -> 1 [] level = SunlightLevelMedium -> 2
      [] level = SunlightLevelHigh -> 3

SunlightPoints(questionnaire, plant) ==
    LET d == LevelRank(plant.Sunlight) - LevelRank(questionnaire.SunlightPreference)
    IN  IF d = 0 THEN 40 ELSE IF d \in {-1, 1} THEN 20 ELSE 0

CarePoints(questionnaire, plant) ==
    LET d == plant.FertilizerFrequency - questionnaire.CareLevel
    IN  IF d = 0 THEN 30 ELSE IF d \in {-1, 1} THEN 15 ELSE 0

PetPoints(questionnaire) == IF questionnaire.PetFriendly THEN 10 ELSE 0

LocationFound(questionnaire, plant) ==
    /\ questionnaire.HasPreferredLocation
    /\ Contains(ToLower(plant.AdditionalNotes), ToLower(questionnaire.PreferredLocation))

\* the score of one plant is the rule table's sum, given the points of the
\* location rule; it lies in [0, 1], is exactly 1.0 when all four rules give
\* their full weight, and is the score the output carries for the plant
ScoreIsRuleSum(questionnaire, plant, locationPoints) ==
    LET points == SunlightPoints(questionnaire, plant) + CarePoints(questionnaire, plant)
                    + PetPoints(questionnaire) + locationPoints
        score == LocalScore(questionnaire, plant)
    IN  /\ Hundredths(score) = points
        /\ InUnitInterval(score)
        /\ points = 100 => score = FloatOne
        /\ \A n \in 1..Len(scorer.outs) : \A i \in 1..Len(scorer.outs[n]) :
              scorer.outs[n][i].PlantID = plant.ID => scorer.outs[n][i].Score = score

Included(out, plant) == \E i \in 1..Len(out) : out[i].PlantID = plant.ID

ClearsThreshold(questionnaire, plant) == FloatGt(LocalScore(questionnaire, plant), Weight03)

\* out is what the ranking of allPlants for questionnaire has to be
IsTopRanking(out, questionnaire, allPlants) ==
    /\ Len(out) <= 5
    /\ \A i \in 1..Len(out) : \A j \in 1..Len(out) :
          i < j => /\ ~FloatGt(out[j].Score, out[i].Score)
                   /\ out[i].PlantID # out[j].PlantID
    /\ \A i \in 1..Len(out) : \E k \in 1..Len(allPlants) :
          /\ allPlants[k].ID = out[i].PlantID
          /\ out[i].Score = LocalScore(questionnaire, allPlants[k])
          /\ ClearsThreshold(questionnaire, allPlants[k])
    /\ \A k \in 1..Len(allPlants) :
          ClearsThreshold(questionnaire, allPlants[k]) /\ ~Included(out, allPlants[k])
            => /\ Len(out) = 5
               /\ \A i \in 1..Len(out) :
                     ~FloatGt(LocalScore(questionnaire, allPlants[k]), out[i].Score)
    /\ (\A k \in 1..Len(allPlants) : ~ClearsThreshold(questionnaire, allPlants[k]))
          => out = << >>

\* C16: what generateLocalRecommendations returns has at most 5 entries, in
\* falling order of score, and holds the highest-scoring plants of those
\* whose score clears the threshold: a plant left out scores no higher than
\* any plant returned; when no plant clears the threshold the call returns
\* the empty list.
C16_TopFiveDescending ==
    \A n \in 1..Len(scorer.outs) :
        IsTopRanking(scorer.outs[n], scorer.questionnaire, scorer.allPlants)

\* a call has returned five of six plants that clear the threshold, the
\* first with a higher score than the last
C16_Witness ==
    /\ scorer.outs # << >>
    /\ Len(scorer.outs[1]) = 5
    /\ FloatGt(scorer.outs[1][1].Score, scorer.outs[1][5].Score)
    /\ \E k \in 1..Len(scorer.allPlants) :
          /\ ClearsThreshold(scorer.questionnaire, scorer.allPlants[k])
          /\ ~Included(scorer.outs[1], scorer.allPlants[k])

\* a step in which generateLocalRecommendations returns
ScorerReturns == Len(scorer'.outs) = Len(scorer.outs) + 1

EntryRecommendation(entry, allPlants) ==
    [QuestionnaireID |-> 1,
     PlantID |-> allPlants[entry.index].ID,
     Score |-> [neg |-> FALSE, hi |-> NearestFloat[entry.score][1],
                lo |-> NearestFloat[entry.score][2]],
     Reasoning |-> JoinLines(entry.reasoning)]

EntryRecommendations(entries, allPlants) ==
    [i \in 1..Len(entries) |-> EntryRecommendation(entries[i], allPlants)]

\* the parser has returned from a reply of entries in the given format
\* with no other line in it
ParsedPlain(format) ==
    /\ parser.pc = "done"
    /\ parser.format = format
    /\ parser.malformedAt = 0
    /\ parser.entries # << >>

\* C18: from a reply of N entries, N no more than the catalog's size, each
\* a header line <index>. <name> - <score> followed by its reasoning lines,
\* parseYandexGPTResponse returns exactly N recommendations in the order of
\* the entries: the plant at <index> of the catalog, the score <score>, and
\* the reasoning lines joined by newlines.
C18_RoundTrip ==
    ParsedPlain("parser") =>
        /\ parser.result.err = NoError
        /\ parser.result.recommendations
              = EntryRecommendations(parser.entries, parser.allPlants)

\* C19: a reply in the format the prompt asks for, N. <plant number>. <name>
\* - <score> with N the rank, is parsed without error into the
\* recommendations of the plants at <plant number> of the catalog.
C19_PromptFormatParsed ==
    ParsedPlain("prompt") =>
        /\ parser.result.err = NoError
        /\ Len(parser.result.recommendations) = Len(parser.entries)
        /\ \A i \in 1..Len(parser.entries) :
              parser.result.recommendations[i].PlantID
                = parser.allPlants[parser.entries[i].index].ID

\* the plant and the score of every recommendation, in order
Identities(recommendations) ==
    [i \in 1..Len(recommendations) |->
        <<recommendations[i].PlantID, recommendations[i].Score>>]

\* what the parser returns for the reply without the line put in
WithoutMalformed ==
    parseYandexGPTResponse(
        ResponseText(parser.entries, parser.format, parser.allPlants, << >>, 0),
        1, parser.allPlants)

\* the turn of the loop that reads the line put in
ReadsMalformed ==
    parser.pc = "lines" /\ parser.malformedAt > 0 /\ parser'.lineNo = parser.malformedAt

\* the return from a reply with a line put in
ReturnsWithMalformed ==
    parser.pc = "lines" /\ parser.malformedAt > 0 /\ parser'.pc = "done"

\* C20: a malformed line (no number in front, a number of 0 or less, a
\* number beyond the catalog) put anywhere among the entries of a reply
\* starts no record, and the parser returns recommendations of the same
\* number, plants and scores as without the line, without error whenever
\* the reply without the line yields a recommendation.
C20_MalformedLinesTolerated ==
    [][/\ ReadsMalformed =>
            /\ parser'.st.recommendations = parser.st.recommendations
            /\ parser'.st.currentPlantNumber = parser.st.currentPlantNumber
            /\ parser'.st.currentScore = parser.st.currentScore
            /\ parser'.st.parsingReasoning = parser.st.parsingReasoning
       /\ ReturnsWithMalformed =>
            /\ Identities(parser'.result.recommendations)
                  = Identities(WithoutMalformed.recommendations)
            /\ WithoutMalformed.err = NoError => parser'.result.err = NoError]_vars

\* the parser has returned both recommendations of a reply of two entries
\* that had a line with a number beyond the catalog between them
C20_Witness ==
    /\ parser.pc = "done"
    /\ parser.format = "parser"
    /\ Len(parser.entries) = 2
    /\ parser.malformedAt > 1
    /\ parser.malformedAt <= Len(parser.lines)
    /\ ~Sscanf(parser.malformed).err
    /\ Sscanf(parser.malformed).plantNumber > Len(parser.allPlants)
    /\ parser.result.err = NoError
    /\ Len(parser.result.recommendations) = 2

\* C21: parseYandexGPTResponse returns an error and no recommendation for a
\* reply without entries (the empty text, a line of commentary, a line whose
\* number is outside the catalog), and it never returns an empty list
\* without an error.
C21_NothingParsedIsAnError ==
    parser.pc = "done" =>
        /\ parser.entries = << >> => parser.result.err # NoError
        /\ parser.result.err # NoError <=> parser.result.recommendations = << >>

\* the parser has returned an error for a reply that is one line with a
\* number beyond the catalog
C21_Witness ==
    /\ parser.pc = "done"
    /\ parser.entries = << >>
    /\ parser.malformedAt = 1
    /\ ~Sscanf(parser.malformed).err
    /\ Sscanf(parser.malformed).plantNumber > Len(parser.allPlants)
    /\ parser.result.err = "failed to parse any recommendations from response"
    /\ parser.result.recommendations = << >>

(***************************************************************************)
(* Properties of callYandexGPTAPI                                          *)
(***************************************************************************)
\* the cases in which the call is to fail
ClientMustFail(resp) ==
    \/ resp.transportErr
    \/ resp.StatusCode < 200 \/ resp.StatusCode > 299
    \/ ~resp.decodes
    \/ Len(resp.Alternatives) = 0

\* C22: callYandexGPTAPI fails exactly when the transport fails, the status
\* is not 2xx, the body does not decode or there is no alternative; for a
\* 2xx response with an alternative it returns the text of the first one
\* unchanged; and a call sends exactly one HTTP request.
C22_ClientContract ==
    client.pc = "done" =>
        /\ client.out.err # NoError <=> ClientMustFail(client.resp)
        /\ ~ClientMustFail(client.resp) => client.out.text = client.resp.Alternatives[1]
        /\ client.requests = 1

(***************************************************************************)
(* Properties of the WateringNotificationsJob                              *)
(***************************************************************************)
\* C23: once Stop has been called on a started job no sweep begins, and a
\* sweep in progress at that time is left to finish.
C23_NoSweepAfterStop ==
    [][/\ job'.running > job.running => job.stopChan = "open"
       /\ job.pc = "sweep" => job'.pc \in {"sweep", "select"}]_vars

\* C24: two sweeps of the job never run at the same time; while one runs
\* the goroutine is inside it, and at most one tick waits to be run after
\* it, the others being dropped.
C24_OneSweepAtATime ==
    /\ job.running <= 1
    /\ job.running = 1 <=> job.pc = "sweep"
    /\ job.tickerC <= 1

\* a sweep is running longer than two intervals: one tick waits, one has
\* been dropped
C24_Witness ==
    /\ job.pc = "sweep"
    /\ job.running = 1
    /\ job.tickerC = 1
    /\ job.dropped >= 1

\* C30: after Stop the goroutine stops the ticker and leaves its loop in
\* the end, also when a tick is ready every time it comes to its select.
C30_StopTerminates ==
    (job.stopChan = "closed") ~> (job.pc = "exited" /\ job.ticker = "stopped")

\* Stop has been called during a sweep with a tick waiting
C30_Witness ==
    /\ job.stopChan = "closed"
    /\ job.pc = "sweep"
    /\ job.tickerC = 1
    /\ job.sweeps >= 2

(***************************************************************************)
(* Failure and concurrency of the calls that write the stores              *)
(***************************************************************************)
\* the reply to the message of the call of t is among the stored messages
\* of its session
ReplyStored(t) ==
    \E i \in 1..Len(dbChatMessages[req[t].sessionID]) :
        /\ dbChatMessages[req[t].sessionID][i].Role = "assistant"
        /\ dbChatMessages[req[t].sessionID][i].Content = req[t].message

\* the reply to the message of the call of t is in the working set
ReplyInWorkingSet(t) ==
    /\ req[t].sessionID \in DOMAIN chatSessions
    /\ \E i \in 1..Len(chatSessions[req[t].sessionID]) :
          /\ chatSessions[req[t].sessionID][i].Role = "assistant"
          /\ chatSessions[req[t].sessionID][i].Text = req[t].message

\* C25: when SendChatMessage returns an error, the assistant reply of that
\* call is not in the message store and the call has not written the
\* working set.
C25_ErrorMeansNoReplyStored ==
    \A t \in Threads :
        req[t].op = "send" /\ req[t].pc = "done" /\ req[t].err # NoError
          => ~ReplyStored(t) /\ ~ReplyInWorkingSet(t)

\* t and u have each run GetRecommendations for the same stored
\* questionnaire, each found no stored recommendation, and each has returned
BothGenerated(t, u) ==
    /\ t # u
    /\ rreq[t].op = "get" /\ rreq[u].op = "get"
    /\ rreq[t].pc = "done" /\ rreq[u].pc = "done"
    /\ rreq[t].questionnaireID = rreq[u].questionnaireID
    /\ rreq[t].questionnaireID \in DOMAIN dbQuestionnaires
    /\ ~rreq[t].fromStore /\ ~rreq[u].fromStore

\* C26: two GetRecommendations calls for the same questionnaire that both
\* find no stored recommendation both return without error and with the
\* same ranked list, and no (questionnaire, plant) pair is stored twice.
C26_ConcurrentGetsSucceed ==
    \A t, u \in Threads :
        BothGenerated(t, u)
          => /\ rreq[t].err = NoError /\ rreq[u].err = NoError
             /\ rreq[t].out = rreq[u].out
             /\ NoRepeatedPlant(StoredFor(rreq[t].questionnaireID))

\* C27: the recommendations a generation takes from the parser name no
\* plant twice, so its save loop never inserts one (questionnaire, plant)
\* pair a second time.
C27_ParsedPlantsDistinct ==
    \A t \in Threads :
        rreq[t].source = "external" => NoRepeatedPlant(rreq[t].recommendations)

\* the save loop of t fails in this step
SaveFails(t) ==
    rreq[t].pc = "save" /\ rreq'[t].pc = "done" /\ rreq'[t].err # NoError

\* C28: when a generation returns an error from its save loop, none of the
\* recommendations it has stored so far remains in the store.
C28_FailedGenerationStoresNothing ==
    [][\A t \in Threads :
          SaveFails(t) =>
            \A i \in 1..rreq[t].saved :
              \A k \in 1..Len(dbRecommendations') :
                dbRecommendations'[k] # RowOf(rreq[t].recommendations[i])]_vars

\* C29: with an API key configured, a GetRecommendations call that begins
\* after a GetRecommendations call for the same questionnaire has returned
\* without error is served from the store and does not call the external
\* client, also when the earlier call stored no recommendation.
C29_LaterGetsUseStore ==
    [][httpRequests' # httpRequests =>
          \A t \in Threads : RecSteps(t) => ~rreq[t].later]_vars
====
